---- MODULE Spec2Model ----
(***************************************************************************)
(* Tactical edge communications gateway.                                   *)
(*                                                                         *)
(* Four services are modelled:                                             *)
(*   SpecQueue   - the store-forward service: QueueManager (Redis sorted   *)
(*                 sets or the in-memory fallback), the enqueue endpoint    *)
(*                 and the background drain worker;                         *)
(*   SpecFlush   - the same service, enqueue requests against the flush     *)
(*                 endpoint;                                                *)
(*   SpecGateway - the gateway core: bearer-token checks and the send       *)
(*                 pipeline (encrypt, audit, route) over the message store; *)
(*   SpecGatewayClock - the same with the gateway's clock advancing;        *)
(*   SpecCrypto  - the crypto engine: encrypt, decrypt and verify;          *)
(*   SpecAudit   - the audit log: log_event, get_events, verify_integrity.  *)
(* Handlers are coroutines on one event loop per process: a handler runs   *)
(* atomically between two awaits that really suspend (HTTP or Redis calls). *)
(***************************************************************************)
EXTENDS Integers, Sequences, FiniteSets, TLC

(***************************************************************************)
(* Bounds of the model.                                                    *)
(***************************************************************************)
\* message ids offered to the store-forward service; their numeric order
\* stands for the byte order of the id strings
NumIds == 3
\* enqueue requests accepted over a run
MaxEnq == 3
\* wall-clock readings 0..MaxClock (one tick = one TTL unit)
MaxClock == 1
\* flush requests over a run
MaxFlush == 1
\* enqueue handlers suspended on Redis at the same time
MaxInflight == 2
\* drain-worker wake-ups over a run
MaxCycles == 1

\* send requests handled by the gateway over a run, accepted or rejected
MaxSends == 2
\* gateway clock readings 0..MaxGClock, in milliseconds
MaxGClock == 1
\* calls of the acknowledge endpoint over a run
MaxAcks == 2
\* the characters of a plaintext are at most MaxPlain
MaxPlain == 2
\* the bytes of a salt and of a nonce (16 and 12 in the code)
SALT_SIZE == 1
NONCE_SIZE == 1
\* AuditLogger.max_events (10,000 in the code)
max_events == 2
\* calls of log_event over a run, and the readings of the audit clock
MaxLogs == 3
MaxAClock == 1

MsgIds == 1..NumIds
\* TTLs a request may carry, in clock ticks
TTLs == {1}

(***************************************************************************)
(* Store-forward service: constants                                        *)
(***************************************************************************)
Precedences == {"FLASH", "IMMEDIATE", "PRIORITY", "ROUTINE"}

\* (mutant: a class is missing from the list)
DrainOrderShort == <<"FLASH", "IMMEDIATE", "PRIORITY", "PRIORITY">>

\* the order both process_queue_worker and flush_all iterate in
DrainOrder == <<"FLASH", "IMMEDIATE", "PRIORITY", "ROUTINE">>

PRIORITY_MAP == [p \in Precedences |->
    CASE p = "FLASH" -> 1
      [] p = "IMMEDIATE" -> 2
      [] p = "PRIORITY" -> 3
      [] p = "ROUTINE" -> 4]

Roles == {"operator", "supervisor", "admin", "service"}
\* roles of the tokens sent to the flush endpoint
FlushRoles == {"operator", "admin"}

VARIABLES
    \* ---- store-forward service ----
    phase,             \* "new" after QueueManager.__init__, "up" after connect(),
                       \* "outage" while a connected Redis cannot be reached
    is_connected,      \* QueueManager.is_connected
    zsets,             \* Redis sorted sets, one per precedence: sets of members
    fallback_queues,   \* QueueManager._fallback_queues: precedence -> list
    expired_count_24h, \* QueueManager.expired_count_24h
    clock,             \* datetime.now(timezone.utc)
    enq,               \* enqueue handlers suspended on a Redis call
    worker,            \* process_queue_worker: position in its cycle
    flush,             \* flush_queue / flush_all: position and counters
    MESSAGES_ENQUEUED, \* Prometheus counters, per precedence
    MESSAGES_DEQUEUED,
    MESSAGES_EXPIRED,
    enqResp,           \* the last response of the enqueue endpoint, <<>> if none
    flushResp,         \* the last response of the flush endpoint, <<>> if none
    inOrder,           \* history: per precedence, the queued entries in the
                       \* order their enqueue returned
    before,            \* history: pairs <<a, b>> of queued entries of one
                       \* class, a's enqueue having returned before b's began
    lastDeq,           \* history: what the last dequeue returned, and to whom
    nEnq, nFlush, nCycles,
    \* ---- gateway core ----
    message_store,     \* main.message_store: message id -> record
    sends,             \* send_message calls: message id -> request, claims,
                       \* position in the pipeline, locals and what the
                       \* collaborators answered
    gnow,              \* datetime.now(timezone.utc) of the gateway, in ms
    rejects,           \* the error answers given by the dependencies of
                       \* the send endpoint, in order
    acks,              \* the answers of the acknowledge endpoint, in order
    \* ---- crypto service ----
    engine,            \* one use of CryptoEngine: the plaintext, the triple
                       \* encrypt returned, the triple handed to decrypt and
                       \* verify, and what they answered
    \* ---- audit service ----
    events,            \* AuditLogger.events
    anow,              \* datetime.now(timezone.utc) of the audit service
    logged,            \* history: every event log_event was given, in order
    answer             \* what the last call of the audit log returned

qvars == <<phase, is_connected, zsets, fallback_queues,
           expired_count_24h, clock, enq, worker, flush, MESSAGES_ENQUEUED,
           MESSAGES_DEQUEUED, MESSAGES_EXPIRED, enqResp, flushResp, inOrder,
           before, lastDeq,
           nEnq, nFlush, nCycles>>

gvars == <<message_store, sends, gnow, rejects, acks>>

cvars == <<engine>>

avars == <<events, anow, logged, answer>>

vars == <<qvars, gvars, cvars, avars>>

\* groups used in UNCHANGED clauses
stores == <<zsets, fallback_queues>>
metrics == <<MESSAGES_ENQUEUED, MESSAGES_DEQUEUED, MESSAGES_EXPIRED,
             expired_count_24h>>
budget == <<nEnq, nFlush, nCycles>>

(***************************************************************************)
(* QueuedMessage and the two backing stores                                *)
(***************************************************************************)
\* recipient and encrypted_content are opaque strings carried unchanged;
\* they are left out of the record
QueuedMessage(id, prec, now, ttl) ==
    [message_id |-> id, precedence |-> prec, created_at |-> now,
     expires_at |-> now + ttl, retry_count |-> 0]

\* Redis orders a sorted set by score (created_at), ties by the bytes of the
\* member, which is to_json(): message_id first, then precedence (equal within
\* a key), created_at (equal in a tie), expires_at, retry_count
MemberBefore(a, b) ==
    \/ a.created_at < b.created_at
    \/ /\ a.created_at = b.created_at
       /\ \/ a.message_id < b.message_id
          \/ /\ a.message_id = b.message_id
             /\ \/ a.expires_at < b.expires_at
                \/ /\ a.expires_at = b.expires_at
                   /\ a.retry_count < b.retry_count

\* ZPOPMIN: the member every other member comes after
ZMin(S) == CHOOSE m \in S : \A o \in S \ {m} : MemberBefore(m, o)

\* ZRANK (0-based)
ZRank(S, m) == Cardinality({o \in S : MemberBefore(o, m)})

UseRedis == is_connected

get_queue_depth(p) ==
    IF UseRedis THEN Cardinality(zsets[p]) ELSE Len(fallback_queues[p])

\* (mutant: the entry taken from the store is not returned)
DequeueResultLost(p) == <<>>

\* what dequeue(p) returns; <<>> stands for None
DequeueResult(p) ==
    IF UseRedis
    THEN IF zsets[p] = {} THEN <<>> ELSE <<ZMin(zsets[p])>>
    ELSE IF fallback_queues[p] = <<>> THEN <<>> ELSE <<Head(fallback_queues[p])>>

\* (mutant: the oldest entry is read and left in the store)
DequeueEffectPeek(p) == UNCHANGED <<zsets, fallback_queues>>

\* (mutant: the fallback hands out the oldest entry and drops the class)
DequeueEffectClear(p) ==
    IF UseRedis
    THEN /\ zsets' = IF zsets[p] = {} THEN zsets
                     ELSE [zsets EXCEPT ![p] = @ \ {ZMin(@)}]
         /\ UNCHANGED fallback_queues
    ELSE /\ fallback_queues' = [fallback_queues EXCEPT ![p] = <<>>]
         /\ UNCHANGED zsets

\* the stores after dequeue(p)
DequeueEffect(p) ==
    IF UseRedis
    THEN /\ zsets' = IF zsets[p] = {} THEN zsets
                     ELSE [zsets EXCEPT ![p] = @ \ {ZMin(@)}]
         /\ UNCHANGED fallback_queues
    ELSE /\ fallback_queues' = IF fallback_queues[p] = <<>> THEN fallback_queues
                               ELSE [fallback_queues EXCEPT ![p] = Tail(@)]
         /\ UNCHANGED zsets

Range(s) == {s[i] : i \in 1..Len(s)}

RemoveFirst(s, e) ==
    IF e \notin Range(s) THEN s
    ELSE LET i == CHOOSE k \in 1..Len(s) :
                      s[k] = e /\ \A j \in 1..(k - 1) : s[j] # e
         IN SubSeq(s, 1, i - 1) \o SubSeq(s, i + 1, Len(s))

\* history kept beside the stores: an entry joins inOrder when its enqueue
\* returns (if it is still queued) and leaves it when it is dequeued
NoteEnqueued(p, e) ==
    IF UseRedis /\ (e \notin zsets[p] \/ e \in Range(inOrder[p]))
    THEN inOrder
    ELSE [inOrder EXCEPT ![p] = Append(@, e)]

NoteDequeued(p, got) ==
    IF got = <<>> THEN inOrder
    ELSE [inOrder EXCEPT ![p] = RemoveFirst(@, got[1])]

\* an enqueue of e begins: every entry of the class whose enqueue has returned
\* and that is still queued precedes it
\* (a request identical to an entry that is queued or being enqueued is the
\* same member to Redis and is given no order of its own)
NoteBegun(p, e) ==
    IF e \in zsets[p] \/ e \in Range(fallback_queues[p])
       \/ (\E r \in enq : r.entry = e)
    THEN before
    ELSE before \cup {<<a, e>> : a \in Range(inOrder[p])}

\* pairs of a dequeued entry are forgotten
ForgetDequeued(got) ==
    IF got = <<>> THEN before
    ELSE {pr \in before : pr[1] # got[1] /\ pr[2] # got[1]}

\* In fallback mode no call of a handler suspends, so a handler that has
\* started runs to its end before any other task of the loop runs.
WorkerBusy == worker.pc = "run"
FlushBusy == flush.pc = "run"
LoopFree == UseRedis \/ (~WorkerBusy /\ ~FlushBusy)

(***************************************************************************)
(* Initial state: QueueManager.__init__                                    *)
(***************************************************************************)
QInit ==
    /\ phase = "new"
    /\ is_connected = FALSE
    /\ zsets = [p \in Precedences |-> {}]
    /\ fallback_queues = [p \in Precedences |-> <<>>]
    /\ expired_count_24h = 0
    /\ clock = 0
    /\ enq = {}
    /\ worker = [pc |-> "sleep", idx |-> 1]
    /\ flush = [pc |-> "idle", idx |-> 1, flushed |-> 0, failed |-> 0,
                role |-> "admin"]
    /\ MESSAGES_ENQUEUED = [p \in Precedences |-> 0]
    /\ MESSAGES_DEQUEUED = [p \in Precedences |-> 0]
    /\ MESSAGES_EXPIRED = [p \in Precedences |-> 0]
    /\ enqResp = <<>>
    /\ flushResp = <<>>
    /\ inOrder = [p \in Precedences |-> <<>>]
    /\ before = {}
    /\ lastDeq = <<>>
    /\ nEnq = 0
    /\ nFlush = 0
    /\ nCycles = 0

(***************************************************************************)
(* lifespan: connect(); the ping succeeds or the fallback is installed     *)
(***************************************************************************)
Connect(ping_ok) ==
    /\ phase = "new"
    /\ phase' = "up"
    /\ is_connected' = ping_ok
    /\ UNCHANGED <<gvars, cvars, avars>>
    /\ UNCHANGED <<stores, metrics, budget, clock, enq, worker, flush,
                   enqResp, flushResp, inOrder, before, lastDeq>>

\* the wall clock advances
Tick ==
    /\ phase = "up"
    /\ clock < MaxClock
    /\ clock' = clock + 1
    /\ UNCHANGED <<gvars, cvars, avars>>
    /\ UNCHANGED <<phase, is_connected, stores, metrics, budget, enq, worker,
                   flush, enqResp, flushResp, inOrder, before, lastDeq>>

(***************************************************************************)
(* POST /api/v1/queue/enqueue                                              *)
(***************************************************************************)
\* fallback mode: append and return, no suspension (the effect on the
\* store-forward service)
EnqueueFallbackBody(id, prec, ttl) ==
    /\ phase = "up" /\ ~UseRedis /\ LoopFree
    /\ nEnq < MaxEnq
    /\ LET m == QueuedMessage(id, prec, clock, ttl) IN
       /\ fallback_queues' = [fallback_queues EXCEPT ![prec] = Append(@, m)]
       /\ enqResp' = [code |-> 201, message_id |-> id, precedence |-> prec,
                      queue_position |-> Len(fallback_queues[prec]) + 1,
                      expires_at |-> m.expires_at]
       /\ inOrder' = NoteEnqueued(prec, m)
       /\ before' = NoteBegun(prec, m)
    /\ MESSAGES_ENQUEUED' = [MESSAGES_ENQUEUED EXCEPT ![prec] = @ + 1]
    /\ nEnq' = nEnq + 1
    /\ UNCHANGED <<phase, is_connected, zsets, MESSAGES_DEQUEUED,
                   MESSAGES_EXPIRED, expired_count_24h, nFlush, nCycles,
                   clock, enq, worker, flush, flushResp, lastDeq>>

\* a request of some other client than the gateway of this model
EnqueueFallback(id, prec, ttl) ==
    /\ EnqueueFallbackBody(id, prec, ttl)
    /\ UNCHANGED <<gvars, cvars, avars>>

\* Redis mode: now is read and the message built, then the handler suspends
\* on ZADD
EnqueueBegin(id, prec, ttl) ==
    /\ phase = "up" /\ UseRedis
    /\ nEnq < MaxEnq
    /\ Cardinality(enq) < MaxInflight
    /\ LET r == [entry |-> QueuedMessage(id, prec, clock, ttl), pc |-> "zadd",
                 depth |-> 0] IN
       /\ \A o \in enq : o.entry # r.entry
       /\ enq' = enq \cup {r}
       /\ before' = NoteBegun(prec, r.entry)
    /\ nEnq' = nEnq + 1
    /\ UNCHANGED <<gvars, cvars, avars>>
    /\ UNCHANGED <<phase, is_connected, stores, metrics, nFlush, nCycles,
                   clock, worker, flush, enqResp, flushResp, inOrder, lastDeq>>

\* ZADD queue_key {member: score}, then SETEX tacedge:msg:<id>, a key the
\* service never reads: the handler next suspends on ZRANK (depth records the
\* size of the class right after the insertion; no step reads it)
EnqueueZadd(r) ==
    /\ r \in enq /\ r.pc = "zadd"
    /\ zsets' = [zsets EXCEPT ![r.entry.precedence] = @ \cup {r.entry}]
    /\ enq' = (enq \ {r}) \cup
                  {[r EXCEPT !.pc = "zrank",
                             !.depth = Cardinality(zsets'[r.entry.precedence])]}
    /\ UNCHANGED <<gvars, cvars, avars>>
    /\ UNCHANGED <<phase, is_connected, fallback_queues, metrics, budget,
                   clock, worker, flush, enqResp, flushResp, inOrder, before, lastDeq>>

\* ZRANK, then the handler returns 201
EnqueueZrank(r) ==
    /\ r \in enq /\ r.pc = "zrank"
    /\ LET p == r.entry.precedence
           pos == IF r.entry \in zsets[p] THEN ZRank(zsets[p], r.entry) + 1
                  ELSE 1 IN
       /\ enqResp' = [code |-> 201, message_id |-> r.entry.message_id,
                      precedence |-> p, queue_position |-> pos,
                      expires_at |-> r.entry.expires_at]
       /\ inOrder' = NoteEnqueued(p, r.entry)
       /\ MESSAGES_ENQUEUED' = [MESSAGES_ENQUEUED EXCEPT ![p] = @ + 1]
    /\ enq' = enq \ {r}
    /\ UNCHANGED <<gvars, cvars, avars>>
    /\ UNCHANGED <<phase, is_connected, stores, MESSAGES_DEQUEUED,
                   MESSAGES_EXPIRED, expired_count_24h, budget, clock, worker,
                   flush, flushResp, before, lastDeq>>

(***************************************************************************)
(* process_queue_worker                                                    *)
(***************************************************************************)
\* asyncio.sleep(2) returns and a new cycle starts
WorkerWake ==
    /\ phase = "up" /\ LoopFree
    /\ worker.pc = "sleep"
    /\ nCycles < MaxCycles
    /\ worker' = [pc |-> "run", idx |-> 1]
    /\ nCycles' = nCycles + 1
    /\ UNCHANGED <<gvars, cvars, avars>>
    /\ UNCHANGED <<phase, is_connected, stores, metrics, nEnq, nFlush, clock,
                   enq, flush, enqResp, flushResp, inOrder, before, lastDeq>>

\* while True: the same wake-up, taken without end (the cycles are not counted)
WorkerLoop ==
    /\ phase = "up" /\ LoopFree
    /\ worker.pc = "sleep"
    /\ worker' = [pc |-> "run", idx |-> 1]
    /\ UNCHANGED <<gvars, cvars, avars>>
    /\ UNCHANGED <<phase, is_connected, stores, metrics, budget, clock,
                   enq, flush, enqResp, flushResp, inOrder, before, lastDeq>>

\* the calls by which the worker hands a dequeued message to its recipient:
\* none, the delivery is a comment ("Simulate message delivery"), the message
\* is counted and logged
DeliveryAttempts(message) == <<>>

\* one iteration of the for loop: a single dequeue of the class, counted when
\* it returns a message; after ROUTINE the worker sleeps
WorkerStep ==
    /\ worker.pc = "run"
    /\ LET p == DrainOrder[worker.idx]
           got == DequeueResult(p) IN
       /\ DequeueEffect(p)
       /\ inOrder' = NoteDequeued(p, got)
       /\ before' = ForgetDequeued(got)
       /\ IF got # <<>>
          THEN /\ MESSAGES_DEQUEUED' = [MESSAGES_DEQUEUED EXCEPT ![p] = @ + 1]
               /\ lastDeq' = [entry |-> got[1], by |-> "worker", at |-> clock]
          ELSE UNCHANGED <<MESSAGES_DEQUEUED, lastDeq>>
    /\ worker' = IF worker.idx = 4 THEN [pc |-> "sleep", idx |-> 1]
                 ELSE [worker EXCEPT !.idx = @ + 1]
    /\ UNCHANGED <<gvars, cvars, avars>>
    /\ UNCHANGED <<phase, is_connected, MESSAGES_ENQUEUED, MESSAGES_EXPIRED,
                   expired_count_24h, budget, clock, enq, flush, enqResp,
                   flushResp>>

(***************************************************************************)
(* POST /api/v1/queue/flush: flush_queue and QueueManager.flush_all        *)
(***************************************************************************)
\* The endpoint declares no dependency on the bearer token: the caller's
\* role arrives with the request and is never read.
FlushBegin(role) ==
    /\ phase = "up" /\ LoopFree
    /\ flush.pc = "idle"
    /\ nFlush < MaxFlush
    /\ flush' = [pc |-> "run", idx |-> 1, flushed |-> 0, failed |-> 0,
                 role |-> role]
    /\ nFlush' = nFlush + 1
    /\ UNCHANGED <<gvars, cvars, avars>>
    /\ UNCHANGED <<phase, is_connected, stores, metrics, nEnq, nCycles, clock,
                   enq, worker, enqResp, flushResp, inOrder, before, lastDeq>>

\* one iteration of the while loop: dequeue; a message is counted as flushed,
\* None ends the class, and after ROUTINE the handler answers 200
FlushStep ==
    /\ flush.pc = "run"
    /\ LET p == DrainOrder[flush.idx]
           got == DequeueResult(p) IN
       /\ DequeueEffect(p)
       /\ inOrder' = NoteDequeued(p, got)
       /\ before' = ForgetDequeued(got)
       /\ IF got # <<>>
          THEN /\ flush' = [flush EXCEPT !.flushed = @ + 1]
               /\ lastDeq' = [entry |-> got[1], by |-> "flush", at |-> clock]
               /\ UNCHANGED flushResp
          ELSE /\ UNCHANGED lastDeq
               /\ IF flush.idx = 4
                  THEN /\ flush' = [pc |-> "idle", idx |-> 1, flushed |-> 0,
                                    failed |-> 0, role |-> "admin"]
                       /\ flushResp' = [role |-> flush.role, code |-> 200,
                                        flushed |-> flush.flushed,
                                        failed |-> flush.failed,
                                        status |-> "COMPLETED"]
                  ELSE /\ flush' = [flush EXCEPT !.idx = @ + 1]
                       /\ UNCHANGED flushResp
    /\ UNCHANGED <<gvars, cvars, avars>>
    /\ UNCHANGED <<phase, is_connected, metrics, budget, clock, enq, worker,
                   enqResp>>

(***************************************************************************)
(* The primary store lost during operation                                 *)
(***************************************************************************)
\* Redis, connected at startup, stops answering while no request is in
\* flight: nothing in the service notices, is_connected stays as connect()
\* left it
RedisLost ==
    /\ phase = "up" /\ is_connected
    /\ enq = {} /\ ~WorkerBusy /\ ~FlushBusy
    /\ phase' = "outage"
    /\ UNCHANGED <<gvars, cvars, avars>>
    /\ UNCHANGED <<is_connected, stores, metrics, budget, clock, enq, worker,
                   flush, enqResp, flushResp, inOrder, before, lastDeq>>

\* Redis answers again; the client reconnects with the next command
RedisBack ==
    /\ phase = "outage"
    /\ phase' = "up"
    /\ UNCHANGED <<gvars, cvars, avars>>
    /\ UNCHANGED <<is_connected, stores, metrics, budget, clock, enq, worker,
                   flush, enqResp, flushResp, inOrder, before, lastDeq>>

\* enqueue during the outage: is_connected is true, so ZADD is called and
\* raises; enqueue_message turns the exception into 500 and nothing is stored
EnqueueOutage(id, prec, ttl) ==
    /\ phase = "outage"
    /\ nEnq < MaxEnq
    /\ enqResp' = [code |-> 500]
    /\ nEnq' = nEnq + 1
    /\ UNCHANGED <<gvars, cvars, avars>>
    /\ UNCHANGED <<phase, is_connected, stores, metrics, nFlush, nCycles,
                   clock, enq, worker, flush, flushResp, inOrder, before,
                   lastDeq>>

\* a cycle of the worker during the outage: dequeue("FLASH") calls ZPOPMIN,
\* which raises; the except clause logs and sleeps 5 s, the other classes are
\* not visited
WorkerOutage ==
    /\ phase = "outage"
    /\ worker.pc \in {"sleep", "backoff"}
    /\ nCycles < MaxCycles
    /\ worker' = [pc |-> "backoff", idx |-> 1]
    /\ nCycles' = nCycles + 1
    /\ UNCHANGED <<gvars, cvars, avars>>
    /\ UNCHANGED <<phase, is_connected, stores, metrics, nEnq, nFlush, clock,
                   enq, flush, enqResp, flushResp, inOrder, before, lastDeq>>

\* asyncio.sleep(5) returns: while True starts the next cycle
WorkerRetry ==
    /\ phase = "up" /\ LoopFree
    /\ worker.pc = "backoff"
    /\ worker' = [pc |-> "run", idx |-> 1]
    /\ UNCHANGED <<gvars, cvars, avars>>
    /\ UNCHANGED <<phase, is_connected, stores, metrics, budget, clock,
                   enq, flush, enqResp, flushResp, inOrder, before, lastDeq>>

\* requests of the enqueue endpoint, in either mode
EnqueueRequests ==
    \/ \E id \in MsgIds, p \in Precedences, t \in TTLs : EnqueueFallback(id, p, t)
    \/ \E id \in MsgIds, p \in Precedences, t \in TTLs : EnqueueBegin(id, p, t)
    \/ \E r \in enq : EnqueueZadd(r)
    \/ \E r \in enq : EnqueueZrank(r)

(***************************************************************************)
(* Gateway core: constants                                                 *)
(***************************************************************************)
Classifications == {"UNCLASSIFIED", "CONFIDENTIAL", "SECRET", "TOP_SECRET"}

classification_hierarchy == [c \in Classifications |->
    CASE c = "UNCLASSIFIED" -> 0
      [] c = "CONFIDENTIAL" -> 1
      [] c = "SECRET" -> 2
      [] c = "TOP_SECRET" -> 3]

Permissions == {"message:send", "message:read", "message:delete",
                "node:status", "node:manage", "config:write", "audit:read",
                "audit:export", "internal:call"}

ROLE_PERMISSIONS == [r \in Roles |->
    CASE r = "operator" -> {"message:send", "message:read", "node:status"}
      [] r = "supervisor" -> {"message:send", "message:read", "message:delete",
                              "node:status", "audit:read"}
      [] r = "admin" -> {"message:send", "message:read", "message:delete",
                         "node:status", "node:manage", "config:write",
                         "audit:read", "audit:export"}
      [] r = "service" -> {"message:send", "message:read", "node:status",
                           "internal:call"}]

max_latency_ms == [p \in Precedences |->
    CASE p = "FLASH" -> 100
      [] p = "IMMEDIATE" -> 500
      [] p = "PRIORITY" -> 2000
      [] p = "ROUTINE" -> 10000]

\* MessageHandler.connected_nodes
connected_nodes == {"NODE-ALPHA", "NODE-BRAVO"}

(***************************************************************************)
(* Bearer tokens: verify_jwt and require_permission                        *)
(***************************************************************************)
\* A token as the Authorization header carries it:
\*   header   "none" (no header), "malformed" (not 'Bearer <token>'), "bearer"
\*   valid    jwt.decode accepts it (signature, exp and sub)
\*   role, level   the role and classification_level claims
\*   explicit, permissions   the optional permissions claim
\*   defect   why jwt.decode refuses it, "none" if it does not
Token(header, valid, role, level, explicit, permissions) ==
    [header |-> header, valid |-> valid, role |-> role, level |-> level,
     explicit |-> explicit, permissions |-> permissions,
     node_id |-> "NODE-ALPHA",
     defect |-> IF valid THEN "none" ELSE "bad_signature"]

\* what can be wrong with the token of a well-formed header
TokenDefects == {"not_a_jwt", "expired", "bad_signature", "no_exp", "no_sub"}

\* jose.jwt.decode with options require_exp and require_sub: it raises
\* JWTError for each of the defects
jwt_decode(defect) == defect \notin TokenDefects

\* a token of an operator with the given defect
DefectiveToken(defect, explicit) ==
    [Token("bearer", jwt_decode(defect), "operator", "SECRET", explicit, {})
         EXCEPT !.defect = defect]

\* verify_jwt: the error it raises, or "ok"
verify_jwt(tok) ==
    IF tok.header = "none" THEN [code |-> 401, error |-> "UNAUTHORIZED"]
    ELSE IF tok.header = "malformed" \/ ~tok.valid
         THEN [code |-> 401, error |-> "INVALID_TOKEN"]
         ELSE [code |-> 200, error |-> "ok"]

\* JWTClaims built by verify_jwt from a token it accepts
JWTClaims(tok) ==
    [node_id |-> tok.node_id,
     role |-> tok.role,
     permissions |-> IF tok.explicit THEN tok.permissions
                     ELSE IF tok.role \in Roles THEN ROLE_PERMISSIONS[tok.role]
                          ELSE {},
     classification_level |-> tok.level]

\* (mutant: the permission is looked up in the claims before the token is
\* verified)
require_permission_unverified(permission, tok) ==
    IF permission \notin JWTClaims(tok).permissions
    THEN [code |-> 403, error |-> "FORBIDDEN"]
    ELSE verify_jwt(tok)

\* require_permission(permission): the error the dependency raises, or "ok"
require_permission(permission, tok) ==
    IF verify_jwt(tok).error # "ok" THEN verify_jwt(tok)
    ELSE IF permission \notin JWTClaims(tok).permissions
         THEN [code |-> 403, error |-> "FORBIDDEN"]
         ELSE [code |-> 200, error |-> "ok"]

(***************************************************************************)
(* Gateway core: POST /api/v1/messages                                     *)
(***************************************************************************)
\* what the collaborators may answer
\*   crypto: 200 with a ciphertext, 200 without the field, an error status,
\*           a transport error (httpx.RequestError), or a 200 whose body
\*           response.json() cannot decode (an exception that is no RequestError)
CryptoOutcomes == {"ciphertext", "no_field", "error_status", "transport_error",
                   "bad_body"}
\*   audit and store-forward: success, an error status, a transport error or
\*   timeout (httpx.RequestError)
CallOutcomes == {"ok", "error_status", "transport_error"}

\* (mutant: the id is the size of the store, which the next send gets again)
NewMessageIdReused ==
    IF message_store = <<>> THEN 1 ELSE Cardinality(DOMAIN message_store)

\* uuid4: an id no earlier send was given
NewMessageId == Cardinality(DOMAIN message_store) + 1

GInit ==
    /\ message_store = <<>>
    /\ sends = <<>>
    /\ gnow = 0
    /\ rejects = <<>>
    /\ acks = <<>>

\* the gateway clock advances
GTick ==
    /\ gnow < MaxGClock
    /\ gnow' = gnow + 1
    /\ UNCHANGED <<message_store, sends, rejects, acks>>
    /\ UNCHANGED <<qvars, cvars, avars>>

\* the request passes require_permission("message:send"); the id is allocated,
\* the message stored as PENDING and the handler suspends on the encrypt call
SendBegin(req, tok) ==
    /\ Len(sends) + Len(rejects) < MaxSends
    /\ require_permission("message:send", tok).error = "ok"
    /\ LET id == NewMessageId IN
       /\ message_store' =
              [i \in (DOMAIN message_store) \cup {id} |->
                  IF i = id
                  THEN [precedence |-> req.precedence,
                        classification |-> req.classification,
                        sender |-> req.sender, recipient |-> req.recipient,
                        content |-> req.content, created_at |-> gnow,
                        status |-> "PENDING", estimated_delivery |-> <<>>]
                  ELSE message_store[i]]
       /\ sends' = Append(sends,
              [message_id |-> id, req |-> req, claims |-> JWTClaims(tok),
               pc |-> "encrypt", encrypted_content |-> "",
               crypto |-> "none", audit |-> "none", queue |-> "none",
               audit_events |-> <<>>, enqueue_posts |-> <<>>,
               resp |-> <<>>])
    /\ UNCHANGED <<gnow, rejects, acks>>
    /\ UNCHANGED <<qvars, cvars, avars>>

\* (mutant: the permission is checked inside the handler, after the record
\* is stored)
CheckedInsideBody == FALSE

\* Depends(require_permission("message:send")) is resolved before the body of
\* send_message is entered
CheckedBeforeBody == TRUE

\* the dependency raises: the error is answered and the body never runs
SendReject(req, tok) ==
    /\ Len(sends) + Len(rejects) < MaxSends
    /\ require_permission("message:send", tok).error # "ok"
    /\ rejects' = Append(rejects,
           [code |-> require_permission("message:send", tok).code,
            error |-> require_permission("message:send", tok).error,
            tok |-> tok])
    /\ IF CheckedBeforeBody
       THEN UNCHANGED message_store
       ELSE LET id == NewMessageId IN
            message_store' =
                [i \in (DOMAIN message_store) \cup {id} |->
                    IF i = id
                    THEN [precedence |-> req.precedence,
                          classification |-> req.classification,
                          sender |-> req.sender, recipient |-> req.recipient,
                          content |-> req.content, created_at |-> gnow,
                          status |-> "PENDING", estimated_delivery |-> <<>>]
                    ELSE message_store[i]]
    /\ UNCHANGED <<sends, gnow, acks>>
    /\ UNCHANGED <<qvars, cvars, avars>>

(***************************************************************************)
(* Gateway core: GET /api/v1/messages/{message_id} and .../content         *)
(***************************************************************************)
\* get_message_status, for a caller holding message:read
get_message_status(message_id) ==
    IF message_id \in DOMAIN message_store
    THEN LET msg == message_store[message_id] IN
         [code |-> 200, message_id |-> message_id, status |-> msg.status,
          precedence |-> msg.precedence, sender |-> msg.sender,
          recipient |-> msg.recipient, created_at |-> msg.created_at,
          delivered_at |-> msg.estimated_delivery]
    ELSE [code |-> 404]

\* (mutant: a message whose send has not ended well is not found)
get_message_content_of_sent(message_id) ==
    IF message_id \in DOMAIN message_store
           /\ message_store[message_id].status # "PENDING"
    THEN LET msg == message_store[message_id] IN
         [code |-> 200, message_id |-> message_id, content |-> msg.content,
          precedence |-> msg.precedence,
          classification |-> msg.classification,
          sender |-> msg.sender, recipient |-> msg.recipient]
    ELSE [code |-> 404]

\* get_message_content, for a caller holding message:read
get_message_content(message_id) ==
    IF message_id \in DOMAIN message_store
    THEN LET msg == message_store[message_id] IN
         [code |-> 200, message_id |-> message_id, content |-> msg.content,
          precedence |-> msg.precedence,
          classification |-> msg.classification,
          sender |-> msg.sender, recipient |-> msg.recipient]
    ELSE [code |-> 404]

(***************************************************************************)
(* Gateway core: POST /api/v1/messages/{message_id}/ack                    *)
(***************************************************************************)
\* what acknowledge_message writes to the message store (mutant: the message
\* is marked)
AckEffectMarks(store, message_id) ==
    IF message_id \in DOMAIN store
    THEN [store EXCEPT ![message_id].status = "ACKNOWLEDGED"]
    ELSE store

\* what acknowledge_message writes to the message store: nothing
AckEffect(store, message_id) == store

\* the request passes require_permission("message:read"); the handler logs
\* and answers, whether or not the id is known
acknowledge_message(message_id, tok) ==
    /\ Len(acks) < MaxAcks
    /\ require_permission("message:read", tok).error = "ok"
    /\ message_store' = AckEffect(message_store, message_id)
    /\ acks' = Append(acks, [message_id |-> message_id,
                             acknowledged |-> TRUE,
                             acknowledged_at |-> gnow,
                             acknowledged_by |-> JWTClaims(tok).node_id,
                             caller |-> tok])
    /\ UNCHANGED <<sends, gnow, rejects>>
    /\ UNCHANGED <<qvars, cvars, avars>>

\* the dependency of the acknowledge endpoint raises: the error is answered
\* and acknowledge_message never runs
AckReject(message_id, tok) ==
    /\ Len(rejects) < MaxAcks
    /\ require_permission("message:read", tok).error # "ok"
    /\ rejects' = Append(rejects,
           [code |-> require_permission("message:read", tok).code,
            error |-> require_permission("message:read", tok).error,
            tok |-> tok])
    /\ UNCHANGED <<message_store, sends, gnow, acks>>
    /\ UNCHANGED <<qvars, cvars, avars>>

\* the ids acknowledged: the first the gateway gives out, and one it may
\* never give out
AckIds == {1, MaxSends + 1}

\* callers of the acknowledge endpoint: two nodes that hold message:read
AckTokens ==
    {Token("bearer", TRUE, "operator", "CONFIDENTIAL", FALSE, {}),
     [Token("bearer", TRUE, "admin", "SECRET", FALSE, {})
          EXCEPT !.node_id = "NODE-BRAVO"]}

\* (mutant: the event is posted with outcome FAILURE)
AuditEventFailure(id, req) ==
    [event_type |-> "MESSAGE_SENT", control_family |-> "AU",
     actor |-> [node_id |-> req.sender, role |-> "operator"],
     action |-> [operation |-> "SEND_MESSAGE", resource |-> id,
                 outcome |-> "FAILURE"],
     context |-> [precedence |-> req.precedence,
                  classification |-> req.classification,
                  recipient |-> req.recipient]]

\* the event _log_audit_event posts for a send
AuditEvent(id, req) ==
    [event_type |-> "MESSAGE_SENT", control_family |-> "AU",
     actor |-> [node_id |-> req.sender, role |-> "operator"],
     action |-> [operation |-> "SEND_MESSAGE", resource |-> id,
                 outcome |-> "SUCCESS"],
     context |-> [precedence |-> req.precedence,
                  classification |-> req.classification,
                  recipient |-> req.recipient]]

\* (mutant: the event is posted before and after routing)
AuditPostsTwice(id, req) == <<AuditEvent(id, req), AuditEvent(id, req)>>

\* the audit events process_message posts for one send: step 2, once,
\* between encryption and routing
AuditPosts(id, req) == <<AuditEvent(id, req)>>

\* (mutant: nothing is passed on when the crypto service gave no ciphertext)
EncryptResultOrNothing(content, outcome) ==
    IF outcome = "ciphertext" THEN "CIPHERTEXT" ELSE ""

\* what _encrypt_content returns
EncryptResult(content, outcome) ==
    IF outcome = "ciphertext" THEN "CIPHERTEXT" ELSE content

\* estimated_delivery computed at the end of process_message
EstimatedDelivery(status, precedence) ==
    IF status \in {"QUEUED", "TRANSMITTED"}
    THEN <<gnow + max_latency_ms[precedence]>>
    ELSE <<>>

\* (mutant: the status is written to every record of the store)
FinishAll(k, status, s) ==
    LET id == s.message_id
        est == EstimatedDelivery(status, s.req.precedence) IN
    /\ message_store' =
           [i \in DOMAIN message_store |->
               [message_store[i] EXCEPT !.status = status,
                                        !.estimated_delivery = est]]
    /\ sends' = [sends EXCEPT ![k] =
           [s EXCEPT !.pc = "done",
                     !.resp = [code |-> 201, message_id |-> id,
                               status |-> status,
                               precedence |-> s.req.precedence,
                               created_at |-> gnow,
                               estimated_delivery |-> est]]]

\* process_message returned: the stored status is updated and 201 is answered
Finish(k, status, s) ==
    LET id == s.message_id
        est == EstimatedDelivery(status, s.req.precedence) IN
    /\ message_store' =
           IF id \in DOMAIN message_store
           THEN [message_store EXCEPT ![id].status = status,
                                      ![id].estimated_delivery = est]
           ELSE message_store
    /\ sends' = [sends EXCEPT ![k] =
           [s EXCEPT !.pc = "done",
                     !.resp = [code |-> 201, message_id |-> id,
                               status |-> status,
                               precedence |-> s.req.precedence,
                               created_at |-> gnow,
                               estimated_delivery |-> est]]]

\* an exception left process_message: send_message answers 500 and writes
\* nothing to the store
Fail(k, s) ==
    /\ sends' = [sends EXCEPT ![k] =
           [s EXCEPT !.pc = "done", !.resp = [code |-> 500]]]
    /\ UNCHANGED message_store

\* which answers leave the calling method as an exception: each method
\* catches httpx.RequestError only, and _log_audit_event never looks at the
\* status of the answer
CryptoCallRaises(outcome) == outcome = "bad_body"
\* (mutant: the except clause of _log_audit_event is missing)
AuditCallRaisesUncaught(outcome) == outcome = "transport_error"
AuditCallRaises(outcome) == FALSE
QueueCallRaises(outcome) == FALSE

\* the encrypt call returns; then the audit event is posted
EncryptReturn(k, outcome) ==
    /\ k \in DOMAIN sends
    /\ sends[k].pc = "encrypt"
    /\ LET s == [sends[k] EXCEPT !.crypto = outcome] IN
       IF CryptoCallRaises(outcome)
       THEN Fail(k, s)
       ELSE /\ sends' = [sends EXCEPT ![k] =
                   [s EXCEPT !.pc = "audit",
                             !.encrypted_content =
                                 EncryptResult(s.req.content, outcome),
                             !.audit_events =
                                 @ \o AuditPosts(s.message_id, s.req)]]
            /\ UNCHANGED message_store
    /\ UNCHANGED <<gnow, rejects, acks>>
    /\ UNCHANGED <<qvars, cvars, avars>>

\* the audit call returns or fails; the message is routed: delivered at once
\* to a connected node, else posted to the store-forward service
AuditReturn(k, outcome) ==
    /\ k \in DOMAIN sends
    /\ sends[k].pc = "audit"
    /\ LET s == [sends[k] EXCEPT !.audit = outcome] IN
       IF AuditCallRaises(outcome)
       THEN Fail(k, s)
       ELSE IF s.req.recipient \in connected_nodes
            THEN Finish(k, "TRANSMITTED", s)
            ELSE /\ sends' = [sends EXCEPT ![k] =
                        [s EXCEPT !.pc = "enqueue",
                                  !.enqueue_posts = Append(@,
                                      [message_id |-> s.message_id,
                                       recipient |-> s.req.recipient,
                                       encrypted_content |-> s.encrypted_content,
                                       precedence |-> s.req.precedence,
                                       ttl |-> s.req.ttl])]]
                 /\ UNCHANGED message_store
    /\ UNCHANGED <<gnow, rejects, acks>>
    /\ UNCHANGED <<qvars, cvars, avars>>

\* (mutant: the status of the answer is not looked at)
QueueResultAlwaysStored(outcome) == "STORED"

\* _queue_message: the status it returns for an answer of the enqueue call
QueueResult(outcome) == IF outcome = "ok" THEN "STORED" ELSE "QUEUED"

\* the enqueue call returns or fails
EnqueueReturn(k, outcome) ==
    /\ k \in DOMAIN sends
    /\ sends[k].pc = "enqueue"
    /\ LET s == [sends[k] EXCEPT !.queue = outcome] IN
       IF QueueCallRaises(outcome)
       THEN Fail(k, s)
       ELSE Finish(k, QueueResult(outcome), s)
    /\ UNCHANGED <<gnow, rejects, acks>>
    /\ UNCHANGED <<qvars, cvars, avars>>

\* requests and tokens offered to the send endpoint
SendRequest(precedence, classification, recipient) ==
    [precedence |-> precedence, classification |-> classification,
     sender |-> "NODE-ALPHA", recipient |-> recipient, content |-> "hello",
     ttl |-> 3600]

SendRequests ==
    {SendRequest("FLASH", "SECRET", "NODE-BRAVO"),
     SendRequest("IMMEDIATE", "CONFIDENTIAL", "NODE-BRAVO"),
     SendRequest("ROUTINE", "UNCLASSIFIED", "NODE-ZULU")}

\* no header; a token jwt.decode rejects; an operator whose explicit
\* permissions claim lacks message:send; an operator cleared to CONFIDENTIAL
SendTokens ==
    {Token("none", FALSE, "operator", "UNCLASSIFIED", FALSE, {}),
     Token("bearer", FALSE, "operator", "UNCLASSIFIED", FALSE, {}),
     Token("bearer", TRUE, "operator", "CONFIDENTIAL", TRUE, {"message:read"}),
     Token("bearer", TRUE, "operator", "CONFIDENTIAL", FALSE, {})}

(***************************************************************************)
(* Crypto service: CryptoEngine                                            *)
(*                                                                         *)
(* The engine is modelled at a reduced scale that keeps its structure: a   *)
(* byte has 3 bits (values 0..7) where the code has 8, a character of the  *)
(* base64 text carries 2 bits (values 0..3) where base64 carries 6, so 2   *)
(* bytes fill 3 characters where base64 fills 4 with 3, and a text whose   *)
(* bytes do not fill its last character leaves bits unused in it, as       *)
(* base64 does.  SALT_SIZE and NONCE_SIZE are 16 and 12 in the code.       *)
(***************************************************************************)
Byte == 0..7
Base64Alphabet == 0..3
\* the padding character "="
Base64Pad == 4

\* the code points of a plaintext: 0 and 1 take one byte in UTF-8, 2 takes
\* two (a lead byte 2 and a continuation byte 3)
CodePoints == 0..2
Plaintexts == UNION {[1..n -> CodePoints] : n \in 1..MaxPlain}

\* the longest UTF-8 encoding of a plaintext, in bytes
MaxData == 2 * MaxPlain

\* AES-GCM's tag: 16 bytes in the code, taken long enough here to tell apart
\* every (key, ciphertext) the model produces
TAG_SIZE == SALT_SIZE + 2 + MaxData

RECURSIVE Sum(_)
Sum(s) == IF s = <<>> THEN 0 ELSE Head(s) + Sum(Tail(s))

Min(a, b) == IF a <= b THEN a ELSE b

\* s[from:] and s[:to] of Python, which accept any index
SliceFrom(s, from) == IF from >= Len(s) THEN <<>> ELSE SubSeq(s, from + 1, Len(s))
SliceTo(s, to) == IF to <= 0 THEN <<>> ELSE SubSeq(s, 1, Min(to, Len(s)))

\* str.encode('utf-8')
RECURSIVE utf8_encode(_)
utf8_encode(s) ==
    IF s = <<>> THEN <<>>
    ELSE (IF Head(s) < 2 THEN <<Head(s)>> ELSE <<2, 3>>) \o utf8_encode(Tail(s))

\* bytes.decode('utf-8'): the text, or a UnicodeDecodeError
RECURSIVE utf8_decode(_)
utf8_decode(b) ==
    IF b = <<>> THEN [ok |-> TRUE, text |-> <<>>]
    ELSE IF Head(b) < 2
         THEN LET r == utf8_decode(Tail(b))
              IN  IF r.ok THEN [ok |-> TRUE, text |-> <<Head(b)>> \o r.text]
                  ELSE r
    ELSE IF Head(b) = 2 /\ Len(b) >= 2 /\ b[2] = 3
         THEN LET r == utf8_decode(SliceFrom(b, 2))
              IN  IF r.ok THEN [ok |-> TRUE, text |-> <<2>> \o r.text]
                  ELSE r
    ELSE [ok |-> FALSE, text |-> <<>>]

\* the bits of a byte string, most significant first
BitsOf(b) ==
    [i \in 1..(3 * Len(b)) |->
        LET v == b[(i + 2) \div 3]
        IN  IF i % 3 = 1 THEN v \div 4
            ELSE IF i % 3 = 2 THEN (v \div 2) % 2
            ELSE v % 2]

\* base64.b64encode: the bits in groups of one character, the last group
\* filled with zero bits, and padding up to a whole number of character
\* triples
b64encode(b) ==
    LET bits == BitsOf(b)
        n == (Len(bits) + 1) \div 2
        bit(i) == IF i <= Len(bits) THEN bits[i] ELSE 0
        data == [j \in 1..n |-> 2 * bit(2 * j - 1) + bit(2 * j)]
    IN  data \o [j \in 1..((3 - (n % 3)) % 3) |-> Base64Pad]

IsBase64Data(c) == c \in Base64Alphabet

\* base64.b64decode without validation: the characters of the alphabet are
\* decoded, the bits left over in the last one are dropped unread, and a
\* text that is not a whole number of character triples, or whose characters
\* end within the first of a triple, is an error (binascii.Error, a
\* ValueError)
b64decode(text) ==
    LET data == SelectSeq(text, IsBase64Data)
        bit(i) == LET c == data[(i + 1) \div 2]
                  IN  IF i % 2 = 1 THEN c \div 2 ELSE c % 2
        n == (2 * Len(data)) \div 3
    IN  IF Len(text) % 3 # 0 \/ Len(data) % 3 = 1
        THEN [ok |-> FALSE, bytes |-> <<>>]
        ELSE [ok |-> TRUE,
              bytes |-> [k \in 1..n |->
                            4 * bit(3 * k - 2) + 2 * bit(3 * k - 1) + bit(3 * k)]]

\* the master secret, as bytes
master_key == <<1, 2>>

\* PBKDF2-HMAC-SHA256 of the master secret under the salt
_derive_key(salt) == [i \in 1..Len(salt) |-> (salt[i] + Sum(master_key)) % 8]

\* AES in counter mode: the key stream of a key and a nonce
KeyStream(key, nonce, i) == (Sum(key) + Sum(nonce) + i) % 8

GcmCipher(key, nonce, data) ==
    [i \in 1..Len(data) |-> (data[i] + KeyStream(key, nonce, i)) % 8]

GcmPlain(key, nonce, ct) ==
    [i \in 1..Len(ct) |-> (ct[i] + 8 - KeyStream(key, nonce, i)) % 8]

\* GCM's tag over a ciphertext, an ideal authentication code: under one
\* nonce, different (key, ciphertext) have different tags
GcmTag(key, nonce, ct) ==
    LET raw == key \o <<Len(ct) \div 8, Len(ct) % 8>> \o ct
                   \o [i \in 1..(MaxData - Len(ct)) |-> 0]
    IN  [i \in 1..Len(raw) |-> (raw[i] + Sum(nonce)) % 8]

\* AESGCM(key).encrypt(nonce, data, None): the ciphertext with the tag
\* appended
AESGCM_encrypt(key, nonce, data) ==
    GcmCipher(key, nonce, data) \o GcmTag(key, nonce, GcmCipher(key, nonce, data))

\* AESGCM(key).decrypt(nonce, data, None): the plaintext, or InvalidTag
AESGCM_decrypt(key, nonce, data) ==
    LET ct == SliceTo(data, Len(data) - TAG_SIZE)
        tag == SliceFrom(data, Len(data) - TAG_SIZE)
    IN  IF Len(data) >= TAG_SIZE /\ tag = GcmTag(key, nonce, ct)
        THEN [ok |-> TRUE, data |-> GcmPlain(key, nonce, ct)]
        ELSE [ok |-> FALSE, data |-> <<>>]

\* CryptoEngine.encrypt, its two draws from os.urandom made parameters
encrypt(plaintext, salt, nonce) ==
    LET key == _derive_key(salt)
        ciphertext_with_tag == AESGCM_encrypt(key, nonce, utf8_encode(plaintext))
        ciphertext == SliceTo(ciphertext_with_tag, Len(ciphertext_with_tag) - TAG_SIZE)
        tag == SliceFrom(ciphertext_with_tag, Len(ciphertext_with_tag) - TAG_SIZE)
    IN  [ciphertext |-> b64encode(salt \o ciphertext),
         nonce |-> b64encode(nonce),
         tag |-> b64encode(tag)]

\* the salt decrypt takes from the decoded ciphertext
ExtractSaltShort(ciphertext_with_salt) == SliceTo(ciphertext_with_salt, SALT_SIZE - 1)

ExtractSalt(ciphertext_with_salt) == SliceTo(ciphertext_with_salt, SALT_SIZE)

\* what decrypt does when the decoding, AES-GCM or the UTF-8 decoding fails
AuthFailureSwallowed == [raised |-> "none", plaintext |-> <<>>]

AuthFailure == [raised |-> "ValueError"]

\* CryptoEngine.decrypt
decrypt(ciphertext, nonce, tag) ==
    LET ciphertext_with_salt == b64decode(ciphertext)
        nonce_bytes == b64decode(nonce)
        tag_bytes == b64decode(tag)
        salt == ExtractSalt(ciphertext_with_salt.bytes)
        actual_ciphertext == SliceFrom(ciphertext_with_salt.bytes, SALT_SIZE)
        key == _derive_key(salt)
        opened == AESGCM_decrypt(key, nonce_bytes.bytes,
                                 actual_ciphertext \o tag_bytes.bytes)
        text == utf8_decode(opened.data)
    IN  IF ~(ciphertext_with_salt.ok /\ nonce_bytes.ok /\ tag_bytes.ok)
        THEN [raised |-> "ValueError"]
        ELSE IF opened.ok /\ text.ok
             THEN [raised |-> "none", plaintext |-> text.text]
             ELSE AuthFailure

\* CryptoEngine.verify
verify(ciphertext, nonce, tag) == decrypt(ciphertext, nonce, tag).raised = "none"

\* POST /api/v1/decrypt
decrypt_message(request) ==
    LET r == decrypt(request.ciphertext, request.nonce, request.tag)
    IN  IF r.raised = "none"
        THEN [status |-> 200, plaintext |-> r.plaintext, verified |-> TRUE]
        ELSE [status |-> 400, detail |-> "Message integrity verification failed"]

\* POST /api/v1/verify
verify_integrity(request) ==
    [status |-> 200,
     valid |-> verify(request.ciphertext, request.nonce, request.tag)]

CInit == engine = [pc |-> "idle"]

\* what os.urandom may return for a salt and for a nonce: every string over
\* a sample of the bytes
SaltBytes == {0, 3, 6}
NonceBytes == {0, 5}
Salts == [1..SALT_SIZE -> SaltBytes]
Nonces == [1..NONCE_SIZE -> NonceBytes]

\* one bit of a value, of weight w, flipped
FlipBit(v, w) == IF (v \div w) % 2 = 1 THEN v - w ELSE v + w

\* encrypt is called; its triple is what a caller will hand back
CryptoEncrypt(plaintext, salt, nonce) ==
    /\ engine.pc = "idle"
    /\ engine' = [pc |-> "encrypted",
                  plaintext |-> plaintext,
                  sent |-> encrypt(plaintext, salt, nonce),
                  request |-> encrypt(plaintext, salt, nonce),
                  changed |-> "none"]
    /\ UNCHANGED <<qvars, gvars, avars>>

\* a bit of one character of the ciphertext or tag text changes on the way
TamperText(field, i, w) ==
    /\ engine.pc = "encrypted"
    /\ i \in DOMAIN engine.request[field]
    /\ engine.request[field][i] \in Base64Alphabet
    /\ engine' = [engine EXCEPT !.pc = "tampered",
                                !.request[field][i] = FlipBit(@, w),
                                !.changed = "text"]
    /\ UNCHANGED <<qvars, gvars, avars>>

\* a bit of one byte of the decoded ciphertext or tag changes, and the bytes
\* are encoded again
TamperBytes(field, i, w) ==
    /\ engine.pc = "encrypted"
    /\ i \in DOMAIN b64decode(engine.request[field]).bytes
    /\ engine' = [engine EXCEPT
                      !.pc = "tampered",
                      !.request[field] =
                          b64encode([b64decode(engine.request[field]).bytes
                                         EXCEPT ![i] = FlipBit(@, w)]),
                      !.changed = "bytes"]
    /\ UNCHANGED <<qvars, gvars, avars>>

\* the triple is handed to decrypt, to the decrypt endpoint and to verify
CryptoDecrypt ==
    /\ engine.pc \in {"encrypted", "tampered"}
    /\ engine' = [pc |-> "done",
                  plaintext |-> engine.plaintext,
                  sent |-> engine.sent,
                  request |-> engine.request,
                  changed |-> engine.changed,
                  out |-> decrypt(engine.request.ciphertext,
                                  engine.request.nonce, engine.request.tag),
                  response |-> decrypt_message(engine.request),
                  verified |-> verify_integrity(engine.request)]
    /\ UNCHANGED <<qvars, gvars, avars>>

(***************************************************************************)
(* Audit service: AuditEvent and AuditLogger                               *)
(***************************************************************************)
\* the dict _generate_hash builds, as its (key, value) pairs in the order
\* they are written
event_data_without_context(e) ==
    << <<"event_id", e.event_id>>, <<"timestamp", e.timestamp>>,
       <<"event_type", e.event_type>>, <<"control_family", e.control_family>>,
       <<"actor", e.actor>>, <<"action", e.action>> >>

event_data(e) ==
    << <<"event_id", e.event_id>>, <<"timestamp", e.timestamp>>,
       <<"event_type", e.event_type>>, <<"control_family", e.control_family>>,
       <<"actor", e.actor>>, <<"action", e.action>>, <<"context", e.context>> >>

\* the keys of the dict in the order sort_keys puts them
SortedKeys ==
    <<"action", "actor", "context", "control_family", "event_id",
      "event_type", "timestamp">>

\* json.dumps(d, sort_keys=True): the pairs of d, by key
json_dumps_sorted(d) ==
    LET present == SelectSeq(SortedKeys,
                             LAMBDA k : \E i \in DOMAIN d : d[i][1] = k)
    IN  [j \in DOMAIN present |->
            <<present[j], d[CHOOSE i \in DOMAIN d : d[i][1] = present[j]][2]>>]

\* hash: Optional[str] = None
NoHash == <<"None">>

\* hashlib.sha256(...).hexdigest(), taken as injective
sha256(text) == <<"sha256", text>>

\* AuditEvent._generate_hash
_generate_hash(e) == sha256(json_dumps_sorted(event_data(e)))

\* AuditEvent(...) with __post_init__: the hash is generated when none is given
AuditEventInit(event_id, timestamp, event_type, control_family, actor, action, context, hash) ==
    LET e == [event_id |-> event_id, timestamp |-> timestamp,
              event_type |-> event_type, control_family |-> control_family,
              actor |-> actor, action |-> action, context |-> context,
              hash |-> hash]
    IN  IF hash = NoHash THEN [e EXCEPT !.hash = _generate_hash(e)] ELSE e

\* what log_event keeps of the list after appending (mutant: the first
\* max_events)
KeepOldest(list) ==
    IF Len(list) > max_events THEN SubSeq(list, 1, max_events) ELSE list

\* self.events[-self.max_events:] when the list is longer than max_events
KeepNewest(list) ==
    IF Len(list) > max_events
    THEN SubSeq(list, Len(list) - max_events + 1, Len(list))
    ELSE list

\* sorted(list, key=timestamp) ascending (mutant)
RECURSIVE SortedOldestFirst(_)
SortedOldestFirst(list) ==
    IF list = <<>> THEN <<>>
    ELSE LET i == CHOOSE i \in DOMAIN list :
                      /\ \A j \in DOMAIN list : list[i].timestamp <= list[j].timestamp
                      /\ \A j \in 1..(i - 1) : list[j].timestamp # list[i].timestamp
         IN  <<list[i]>> \o SortedOldestFirst(
                 SubSeq(list, 1, i - 1) \o SubSeq(list, i + 1, Len(list)))

\* sorted(list, key=lambda e: e.timestamp, reverse=True): the greatest
\* timestamp first, events of one timestamp in the order they have in list
RECURSIVE SortedNewestFirst(_)
SortedNewestFirst(list) ==
    IF list = <<>> THEN <<>>
    ELSE LET i == CHOOSE i \in DOMAIN list :
                      /\ \A j \in DOMAIN list : list[i].timestamp >= list[j].timestamp
                      /\ \A j \in 1..(i - 1) : list[j].timestamp # list[i].timestamp
         IN  <<list[i]>> \o SortedNewestFirst(
                 SubSeq(list, 1, i - 1) \o SubSeq(list, i + 1, Len(list)))

\* AuditLogger.get_events; "None" is a filter that is not given
get_events(event_type, control_family, actor_node, limit) ==
    LET f1 == IF event_type # "None"
              THEN SelectSeq(events, LAMBDA e : e.event_type = event_type)
              ELSE events
        f2 == IF control_family # "None"
              THEN SelectSeq(f1, LAMBDA e : e.control_family = control_family)
              ELSE f1
        f3 == IF actor_node # "None"
              THEN SelectSeq(f2, LAMBDA e : e.actor.node_id = actor_node)
              ELSE f2
    IN  SliceTo(SortedNewestFirst(f3), limit)

\* AuditLogger.verify_integrity
AuditLogger_verify_integrity(event) == event.hash = _generate_hash(event)

\* AuditLogger()
AInit ==
    /\ events = <<>>
    /\ logged = <<>>
    /\ anow = 0
    /\ answer = [op |-> "none"]

\* the clock of the audit service advances
ATick ==
    /\ anow < MaxAClock
    /\ anow' = anow + 1
    /\ UNCHANGED <<events, logged, answer>>
    /\ UNCHANGED <<qvars, gvars, cvars>>

\* AuditLogger.log_event; the caller's event ids are distinct (uuid4), and
\* the caller verifies the event it gets back
LogEvent(event_type, control_family, actor, action, context) ==
    /\ Len(logged) < MaxLogs
    /\ LET event == AuditEventInit(Len(logged) + 1, anow, event_type,
                                   control_family, actor, action, context,
                                   NoHash)
       IN  /\ events' = KeepNewest(Append(events, event))
           /\ logged' = Append(logged, event)
           /\ answer' = [op |-> "log", event |-> event,
                         valid |-> AuditLogger_verify_integrity(event)]
    /\ UNCHANGED anow
    /\ UNCHANGED <<qvars, gvars, cvars>>

\* a field of the event that log_event returned is changed, and the changed
\* event is verified
ChangeField(field, value) ==
    /\ answer.op = "log"
    /\ value # answer.event[field]
    /\ LET changed == [answer.event EXCEPT ![field] = value]
       IN  answer' = [op |-> "verify", original |-> answer.event,
                      event |-> changed, field |-> field,
                      valid |-> AuditLogger_verify_integrity(changed)]
    /\ UNCHANGED <<events, logged, anow>>
    /\ UNCHANGED <<qvars, gvars, cvars>>

\* AuditLogger.get_events
GetEvents(event_type, control_family, actor_node, limit) ==
    /\ answer.op # "query"
    /\ answer' = [op |-> "query", event_type |-> event_type,
                  control_family |-> control_family, actor_node |-> actor_node,
                  limit |-> limit,
                  result |-> get_events(event_type, control_family, actor_node,
                                        limit)]
    /\ UNCHANGED <<events, logged, anow>>
    /\ UNCHANGED <<qvars, gvars, cvars>>

\* the calls of log_event the model makes
AuditActor(node_id, role) ==
    [node_id |-> node_id, role |-> role, ip_address |-> "None",
     session_id |-> "None"]
AuditAction(operation, resource, outcome) ==
    [operation |-> operation, resource |-> resource, outcome |-> outcome,
     reason |-> "None"]
ContextInfo(precedence) ==
    [precedence |-> precedence, classification |-> "None", recipient |-> "None"]
LogCalls ==
    { [event_type |-> "MESSAGE_SENT", control_family |-> "AU",
       actor |-> AuditActor("NODE-ALPHA", "operator"),
       action |-> AuditAction("SEND_MESSAGE", "message:1", "SUCCESS"),
       context |-> ContextInfo("FLASH")],
      [event_type |-> "AUTH_FAILURE", control_family |-> "IA",
       actor |-> AuditActor("NODE-BRAVO", "admin"),
       action |-> AuditAction("LOGIN", "token", "FAILURE"),
       context |-> ContextInfo("None")] }

\* the values a field of an event may be changed to
FieldValues(field) ==
    CASE field = "event_id" -> 1..(MaxLogs + 1)
      [] field = "timestamp" -> 0..(MaxAClock + 1)
      [] field = "event_type" -> {"MESSAGE_SENT", "AUTH_FAILURE"}
      [] field = "control_family" -> {"AU", "IA"}
      [] field = "actor" -> {AuditActor("NODE-ALPHA", "operator"),
                             AuditActor("NODE-ALPHA", "admin"),
                             AuditActor("NODE-BRAVO", "admin"),
                             [AuditActor("NODE-BRAVO", "admin")
                                  EXCEPT !.ip_address = "10.0.1.50"]}
      [] field = "action" -> {AuditAction("SEND_MESSAGE", "message:1", "SUCCESS"),
                              AuditAction("SEND_MESSAGE", "message:1", "FAILURE"),
                              AuditAction("LOGIN", "token", "FAILURE"),
                              AuditAction("LOGIN", "token", "SUCCESS")}
      [] field = "context" -> {ContextInfo("None"), ContextInfo("FLASH"),
                               ContextInfo("ROUTINE")}
      [] field = "hash" -> {NoHash, sha256(<<>>)}
                               \cup {e.hash : e \in Range(logged)}

EventFields ==
    {"event_id", "timestamp", "event_type", "control_family", "actor",
     "action", "context", "hash"}

\* the store-forward service with its drain worker
QNext ==
    \/ \E ok \in BOOLEAN : Connect(ok)
    \/ Tick
    \/ EnqueueRequests
    \/ WorkerWake
    \/ WorkerStep

Init == QInit /\ GInit /\ CInit /\ AInit

\* the store-forward service started without Redis: every operation works on
\* the in-memory queues (no operation of the fallback reads the clock, which
\* stands still here)
FallbackNext ==
    \/ Connect(FALSE)
    \/ \E id \in MsgIds, p \in Precedences, t \in TTLs : EnqueueFallback(id, p, t)
    \/ WorkerWake
    \/ WorkerStep

SpecFallback == Init /\ [][FallbackNext]_vars

\* the classes named by the enqueue requests of the two specifications below
OutageClasses == {"FLASH", "ROUTINE"}
BothClasses == {"FLASH"}

\* the store-forward service with the worker and flush_all both dequeuing
\* while enqueue requests arrive
BothNext ==
    \/ \E ok \in BOOLEAN : Connect(ok)
    \/ \E id \in MsgIds, p \in BothClasses, t \in TTLs : EnqueueFallback(id, p, t)
    \/ \E id \in MsgIds, p \in BothClasses, t \in TTLs : EnqueueBegin(id, p, t)
    \/ \E r \in enq : EnqueueZadd(r)
    \/ \E r \in enq : EnqueueZrank(r)
    \/ WorkerWake
    \/ WorkerStep
    \/ FlushBegin("admin")
    \/ FlushStep

SpecBoth == Init /\ [][BothNext]_vars

\* the store-forward service with a primary store that can be lost and found
\* again while the service runs
ONext ==
    \/ \E ok \in BOOLEAN : Connect(ok)
    \/ \E id \in MsgIds, p \in OutageClasses, t \in TTLs : EnqueueFallback(id, p, t)
    \/ \E id \in MsgIds, p \in OutageClasses, t \in TTLs : EnqueueBegin(id, p, t)
    \/ \E r \in enq : EnqueueZadd(r)
    \/ \E r \in enq : EnqueueZrank(r)
    \/ WorkerWake
    \/ WorkerStep
    \/ RedisLost
    \/ RedisBack
    \/ \E id \in MsgIds, p \in OutageClasses, t \in TTLs : EnqueueOutage(id, p, t)
    \/ WorkerOutage
    \/ WorkerRetry

SpecOutage == Init /\ [][ONext]_vars

SpecQueue == Init /\ [][QNext]_vars

\* the store-forward service with the worker not scheduled: enqueue requests
\* against flush
FNext ==
    \/ \E ok \in BOOLEAN : Connect(ok)
    \/ Tick
    \/ EnqueueRequests
    \/ \E role \in FlushRoles : FlushBegin(role)
    \/ FlushStep

SpecFlush == Init /\ [][FNext]_vars

\* the store-forward service with a worker that never stops: each sleep
\* returns and each dequeue call returns
\* the classes its enqueue requests name: the first and the last the worker
\* visits
DrainClasses == {"FLASH", "ROUTINE"}

DrainEnqueue ==
    \/ \E id \in MsgIds, p \in DrainClasses, t \in TTLs :
           EnqueueFallback(id, p, t)
    \/ \E id \in MsgIds, p \in DrainClasses, t \in TTLs :
           EnqueueBegin(id, p, t)
    \/ \E r \in enq : EnqueueZadd(r)
    \/ \E r \in enq : EnqueueZrank(r)

DNext ==
    \/ \E ok \in BOOLEAN : Connect(ok)
    \/ Tick
    \/ DrainEnqueue
    \/ WorkerLoop
    \/ WorkerStep

SpecDrain ==
    Init /\ [][DNext]_vars /\ WF_vars(WorkerLoop) /\ WF_vars(WorkerStep)

\* the store-forward service with a flush_all that goes on while enqueue
\* requests arrive: the event loop resumes the coroutine after each dequeue
\* call
FLiveNext ==
    \/ \E ok \in BOOLEAN : Connect(ok)
    \/ DrainEnqueue
    \/ FlushBegin("admin")
    \/ FlushStep

SpecFlushLive == Init /\ [][FLiveNext]_vars /\ WF_vars(FlushStep)

\* the store-forward service with the worker stopped and no enqueue
\* concurrent with a flush: requests are enqueued, then the queues are flushed
QuietEnqueue ==
    /\ flush.pc = "idle" /\ nFlush = 0
    /\ EnqueueRequests

QuietFlushBegin(role) ==
    /\ enq = {}
    /\ FlushBegin(role)

FQuietNext ==
    \/ \E ok \in BOOLEAN : Connect(ok)
    \/ Tick
    \/ QuietEnqueue
    \/ \E role \in FlushRoles : QuietFlushBegin(role)
    \/ FlushStep

SpecFlushQuiet == Init /\ [][FQuietNext]_vars

\* Both services: the enqueue post of a send is handled by the store-forward
\* service (in-memory fallback) and answered 201 in one step, or it does not
\* reach the service; the worker never stops. The crypto and audit services
\* answer well.
RelayEnqueue(k, ttl) ==
    /\ k \in DOMAIN sends
    /\ sends[k].pc = "enqueue"
    /\ sends[k].message_id \in MsgIds
    /\ EnqueueFallbackBody(sends[k].message_id, sends[k].req.precedence, ttl)
    /\ Finish(k, QueueResult("ok"), [sends[k] EXCEPT !.queue = "ok"])
    /\ UNCHANGED <<gnow, rejects, acks>>
    /\ UNCHANGED <<cvars, avars>>

RNext ==
    \/ Connect(FALSE)
    \/ Tick
    \/ \E req \in SendRequests, tok \in SendTokens : SendBegin(req, tok)
    \/ \E k \in DOMAIN sends : EncryptReturn(k, "ciphertext")
    \/ \E k \in DOMAIN sends : AuditReturn(k, "ok")
    \/ \E k \in DOMAIN sends, t \in TTLs : RelayEnqueue(k, t)
    \/ \E k \in DOMAIN sends : EnqueueReturn(k, "transport_error")
    \/ WorkerLoop
    \/ WorkerStep

SpecRelay ==
    Init /\ [][RNext]_vars /\ WF_vars(WorkerLoop) /\ WF_vars(WorkerStep)

\* the gateway core; its collaborators are seen through their answers. No
\* branch of the send pipeline reads the clock, which stands still here
GNext ==
    \/ \E req \in SendRequests, tok \in SendTokens : SendBegin(req, tok)
    \/ \E k \in DOMAIN sends, o \in CryptoOutcomes : EncryptReturn(k, o)
    \/ \E k \in DOMAIN sends, o \in CallOutcomes : AuditReturn(k, o)
    \/ \E k \in DOMAIN sends, o \in CallOutcomes : EnqueueReturn(k, o)

SpecGateway == Init /\ [][GNext]_vars

\* the gateway core with the requests its dependencies reject
AuthNext ==
    \/ \E req \in SendRequests, tok \in SendTokens : SendReject(req, tok)
    \/ GNext

SpecAuth == Init /\ [][AuthNext]_vars

\* callers with every kind of Authorization header: none (or an empty one),
\* one that is not "Bearer <token>", tokens jwt.decode refuses, with and
\* without a permissions claim, and tokens it accepts, with and without the
\* permission
AuthnTokens ==
    {Token("none", FALSE, "operator", "SECRET", FALSE, {}),
     Token("malformed", TRUE, "operator", "SECRET", FALSE, {}),
     Token("bearer", TRUE, "operator", "SECRET", TRUE, {}),
     Token("bearer", TRUE, "operator", "SECRET", FALSE, {})}
    \cup {DefectiveToken(d, e) : d \in TokenDefects, e \in BOOLEAN}

\* the acknowledge endpoint called with every kind of header
AuthnNext ==
    \/ \E message_id \in AckIds, tok \in AuthnTokens :
           acknowledge_message(message_id, tok)
    \/ \E message_id \in AckIds, tok \in AuthnTokens :
           AckReject(message_id, tok)

SpecAuthn == Init /\ [][AuthnNext]_vars

\* callers of the send endpoint with different roles
TrailTokens ==
    {Token("bearer", TRUE, "operator", "SECRET", FALSE, {}),
     Token("bearer", TRUE, "admin", "SECRET", FALSE, {})}

\* the gateway core called by operators and administrators
TrailNext ==
    \/ \E req \in SendRequests, tok \in TrailTokens : SendBegin(req, tok)
    \/ \E k \in DOMAIN sends, o \in CryptoOutcomes : EncryptReturn(k, o)
    \/ \E k \in DOMAIN sends, o \in CallOutcomes : AuditReturn(k, o)
    \/ \E k \in DOMAIN sends, o \in CallOutcomes : EnqueueReturn(k, o)

SpecAuditTrail == Init /\ [][TrailNext]_vars

\* the gateway core with the acknowledge endpoint: messages are delivered
\* at once and acknowledged, known or not, while the clock advances
AckNext ==
    \/ GTick
    \/ SendBegin(SendRequest("FLASH", "SECRET", "NODE-BRAVO"),
                 Token("bearer", TRUE, "operator", "SECRET", FALSE, {}))
    \/ \E k \in DOMAIN sends : EncryptReturn(k, "ciphertext")
    \/ \E k \in DOMAIN sends : AuditReturn(k, "ok")
    \/ \E message_id \in AckIds, tok \in AckTokens :
           acknowledge_message(message_id, tok)

SpecAck == Init /\ [][AckNext]_vars

\* the gateway core with its clock advancing
GClockNext ==
    \/ GTick
    \/ GNext

SpecGatewayClock == Init /\ [][GClockNext]_vars

\* the crypto engine: one encryption, the triple possibly changed on the way,
\* then decrypt and verify
CNext ==
    \/ \E plaintext \in Plaintexts, salt \in Salts, nonce \in Nonces :
           CryptoEncrypt(plaintext, salt, nonce)
    \/ \E field \in {"ciphertext", "tag"}, i \in 1..(2 * TAG_SIZE), w \in {1, 2} :
           TamperText(field, i, w)
    \/ \E field \in {"ciphertext", "tag"}, i \in 1..TAG_SIZE, w \in {1, 2, 4} :
           TamperBytes(field, i, w)
    \/ CryptoDecrypt

SpecCrypto == Init /\ [][CNext]_vars

\* the audit log: events are logged, an event that was returned is changed
\* and verified, the log is queried
ANext ==
    \/ ATick
    \/ \E c \in LogCalls :
           LogEvent(c.event_type, c.control_family, c.actor, c.action, c.context)
    \/ \E field \in EventFields : \E value \in FieldValues(field) :
           ChangeField(field, value)
    \/ \E event_type \in {"None", "MESSAGE_SENT"}, limit \in 1..MaxLogs :
           GetEvents(event_type, "None", "None", limit)

SpecAudit == Init /\ [][ANext]_vars

(***************************************************************************)
(* Properties of the store-forward service                                 *)
(***************************************************************************)
Queued(p) == IF UseRedis THEN zsets[p] ELSE Range(fallback_queues[p])

\* a step in which dequeue(p) returned an entry
DequeuedFrom(p) == get_queue_depth(p)' < get_queue_depth(p)

HigherClasses(p) == {c \in Precedences : PRIORITY_MAP[c] < PRIORITY_MAP[p]}

\* C1 (priority strictness): whenever an entry of class p is dequeued, by the
\* drain worker or by flush_all, every class of strictly higher priority
\* (lower priority value) is empty at that moment.
C1_PriorityStrictness ==
    [][\A p \in Precedences :
          DequeuedFrom(p) => \A c \in HigherClasses(p) : get_queue_depth(c) = 0]_vars

\* C2 (TTL): an entry handed over as dequeued (counted in MESSAGES_DEQUEUED by
\* the worker, or in flushed by flush_all) was not expired when it left the
\* queue: its expires_at was later than the clock reading of the dequeue.
C2_ExpiredNeverDelivered ==
    lastDeq # <<>> => lastDeq.entry.expires_at > lastDeq.at

\* C3 (within-class FIFO): an entry b leaves its class only when no entry a
\* whose enqueue had returned before b's enqueue began is still queued in
\* that class, whichever backing store is in use.
C3_WithinClassFifo ==
    [][\A p \in Precedences :
          DequeuedFrom(p) =>
              \A a \in Queued(p) : <<a, DequeueResult(p)[1]>> \notin before]_vars

\* C4 (RBAC denial on flush): a flush request made with an operator token is
\* answered 403 and has dequeued nothing.
C4_OperatorFlushDenied ==
    /\ (flushResp # <<>> /\ flushResp.role = "operator") =>
           (flushResp.code = 403 /\ flushResp.flushed = 0)
    /\ (flush.pc = "run" /\ flush.role = "operator") => flush.flushed = 0

\* the permission the flush endpoint is documented to require ("Requires
\* admin role"; node:manage in the interface table)
FlushPermission == "node:manage"

\* C5 (RBAC minimality): no handler body runs, and no answer other than 403
\* is given, for a request made under a role whose role-to-permission mapping
\* lacks the permission the endpoint requires.
C5_RbacMinimality ==
    /\ flush.pc = "run" => FlushPermission \in ROLE_PERMISSIONS[flush.role]
    /\ \A R \in Roles :
           (flushResp # <<>> /\ flushResp.role = R
                /\ FlushPermission \notin ROLE_PERMISSIONS[R])
               => flushResp.code = 403

(***************************************************************************)
(* Properties of the gateway core                                          *)
(***************************************************************************)
\* C6 (classification ceiling): no send is accepted (no message record is
\* created, no pipeline run exists) whose request classification is
\* strictly above the caller's classification_level.
C6_ClassificationCeiling ==
    \A k \in DOMAIN sends :
        classification_hierarchy[sends[k].req.classification]
            <= classification_hierarchy[sends[k].claims.classification_level]

StatusTransitions ==
    {<<"PENDING", "TRANSMITTED">>, <<"PENDING", "STORED">>,
     <<"PENDING", "QUEUED">>, <<"PENDING", "FAILED">>,
     <<"QUEUED", "STORED">>, <<"STORED", "TRANSMITTED">>,
     <<"STORED", "EXPIRED">>}

\* C7 (status monotonicity): a stored message is never removed and every
\* change of its status is one of the forward transitions of the state
\* machine; TRANSMITTED, FAILED and EXPIRED are never left.
C7_StatusMonotone ==
    [][\A id \in DOMAIN message_store :
          /\ id \in DOMAIN message_store'
          /\ message_store'[id].status # message_store[id].status =>
                 <<message_store[id].status, message_store'[id].status>>
                     \in StatusTransitions]_vars

\* a message has reached TRANSMITTED and a later send has been accepted
C7_Witness ==
    \E id \in DOMAIN message_store :
        /\ message_store[id].status = "TRANSMITTED"
        /\ \E other \in DOMAIN message_store : other > id

Answered(k) == sends[k].pc = "done" /\ sends[k].resp.code = 201

\* C8 (routing outcome): a send to a connected node posts nothing to the
\* queue and ends TRANSMITTED; any other send posts exactly one enqueue and
\* ends STORED when the queue accepted it, QUEUED when the call failed; the
\* stored status is the one answered.
C8_RoutingOutcome ==
    \A k \in DOMAIN sends :
        LET s == sends[k] IN
        /\ s.req.recipient \in connected_nodes =>
               /\ s.enqueue_posts = <<>>
               /\ Answered(k) => s.resp.status = "TRANSMITTED"
        /\ (s.req.recipient \notin connected_nodes /\ Answered(k)) =>
               /\ Len(s.enqueue_posts) = 1
               /\ s.queue = "ok" => s.resp.status = "STORED"
               /\ s.queue # "ok" => s.resp.status = "QUEUED"
        /\ Answered(k) => message_store[s.message_id].status = s.resp.status

\* one send was queued after a failed enqueue and one was delivered directly
C8_Witness ==
    /\ \E k \in DOMAIN sends :
           /\ Answered(k) /\ sends[k].queue = "transport_error"
           /\ sends[k].resp.status = "QUEUED"
    /\ \E k \in DOMAIN sends :
           Answered(k) /\ sends[k].resp.status = "TRANSMITTED"

\* C9 (non-blocking on audit): a send whose audit call failed goes on to the
\* routing step and, once answered, is answered 201 with the status routing
\* produced.
C9_AuditNonBlocking ==
    \A k \in DOMAIN sends :
        LET s == sends[k] IN
        s.audit \in {"error_status", "transport_error"} =>
            /\ s.pc \in {"enqueue", "done"}
            /\ s.pc = "done" =>
                   /\ s.resp.code = 201
                   /\ s.resp.status =
                          IF s.req.recipient \in connected_nodes
                          THEN "TRANSMITTED" ELSE QueueResult(s.queue)

\* a send whose audit call timed out has been answered 201
C9_Witness ==
    \E k \in DOMAIN sends :
        sends[k].audit = "transport_error" /\ Answered(k)

\* a payload that is neither the bare body nor a ciphertext
HasUnencryptedMarker(payload, content) == payload \notin {content, "CIPHERTEXT"}

\* C10 (crypto degradation): once the encrypt call of a send has failed, the
\* outbound copy carries an UNENCRYPTED marker and an audit event with
\* operation ENCRYPT and outcome FAILURE has been logged for the send.
C10_CryptoFailureAudited ==
    \A k \in DOMAIN sends :
        LET s == sends[k] IN
        s.crypto \in {"error_status", "transport_error", "bad_body"} =>
            /\ HasUnencryptedMarker(s.encrypted_content, s.req.content)
            /\ \E i \in 1..Len(s.audit_events) :
                   /\ s.audit_events[i].action.operation = "ENCRYPT"
                   /\ s.audit_events[i].action.outcome = "FAILURE"

(***************************************************************************)
(* Further properties of the store-forward service                         *)
(***************************************************************************)
\* entries of class p that carry message id id
EntriesOfId(p, id) ==
    IF UseRedis
    THEN Cardinality({m \in zsets[p] : m.message_id = id})
    ELSE Cardinality({i \in 1..Len(fallback_queues[p]) :
                         fallback_queues[p][i].message_id = id})

\* C11 (no duplicate entries): in every reachable state the queue holds at
\* most one entry per message id, all precedence classes taken together.
C11_NoDuplicateEntries ==
    \A id \in MsgIds :
        EntriesOfId("FLASH", id) + EntriesOfId("IMMEDIATE", id)
            + EntriesOfId("PRIORITY", id) + EntriesOfId("ROUTINE", id) <= 1

TotalDepth ==
    get_queue_depth("FLASH") + get_queue_depth("IMMEDIATE")
        + get_queue_depth("PRIORITY") + get_queue_depth("ROUTINE")

\* C13 (flush order): with the worker stopped and no enqueue concurrent with
\* it, flush_all removes the entries in strict class order and, within a
\* class, in enqueue order; each entry removed is counted as flushed, none as
\* failed, and the answer is given with every queue empty.
C13_FlushOrder ==
    [][/\ \A p \in Precedences : DequeuedFrom(p) =>
              /\ flush.pc = "run"
              /\ \A c \in HigherClasses(p) : get_queue_depth(c) = 0
              /\ \A a \in Queued(p) : <<a, DequeueResult(p)[1]>> \notin before
              /\ flush'.flushed + TotalDepth' = flush.flushed + TotalDepth
       /\ flushResp' # flushResp =>
              /\ flushResp'.flushed = flush.flushed
              /\ flushResp'.failed = 0
              /\ TotalDepth' = 0]_vars

\* C14 (drain liveness): with the worker running, every entry that is in the
\* queue (whatever its message id and class) is eventually returned by a
\* dequeue of the worker, which counts it in MESSAGES_DEQUEUED of its class,
\* whatever else is enqueued meanwhile.
C14_DrainLiveness ==
    /\ \A id \in MsgIds, p \in DrainClasses :
           (\E e \in Queued(p) : e.message_id = id)
               ~> (/\ lastDeq # <<>>
                   /\ lastDeq.by = "worker"
                   /\ lastDeq.entry.message_id = id
                   /\ lastDeq.entry.precedence = p)
    /\ [][\A p \in Precedences : DequeuedFrom(p) =>
              MESSAGES_DEQUEUED'[p] = MESSAGES_DEQUEUED[p] + 1]_vars

\* the worker has taken an entry that was enqueued behind two others
C14_Witness ==
    /\ lastDeq # <<>> /\ lastDeq.by = "worker"
    /\ MESSAGES_DEQUEUED[lastDeq.entry.precedence] = 3

\* C17 (expiry accounting): each entry that leaves the queue with its TTL
\* elapsed adds one to expired_count_24h (the total_expired_24h of the queue
\* status endpoint), and nothing else changes the counter.
C17_ExpiryAccounting ==
    [][/\ \A p \in Precedences :
              (DequeuedFrom(p) /\ DequeueResult(p)[1].expires_at <= clock)
                  => expired_count_24h' = expired_count_24h + 1
       /\ expired_count_24h' # expired_count_24h =>
              \E p \in Precedences :
                  DequeuedFrom(p) /\ DequeueResult(p)[1].expires_at <= clock]_vars

(***************************************************************************)
(* Further properties of the gateway core                                  *)
(***************************************************************************)
\* C12 (a rejected request changes nothing): a step in which the send
\* endpoint answers 401 or 403 creates no message record, changes no
\* record, and starts or advances no pipeline run (no call to the crypto,
\* audit or queue collaborator).
C12_RejectChangesNothing ==
    [][rejects' # rejects =>
          /\ rejects'[Len(rejects')].code \in {401, 403}
          /\ UNCHANGED <<message_store, sends>>]_vars

\* a request was rejected for a missing permission while a send was in its
\* pipeline
C12_Witness ==
    /\ rejects # <<>> /\ rejects[Len(rejects)].error = "FORBIDDEN"
    /\ \E k \in DOMAIN sends : sends[k].pc = "audit"

\* C15 (STORED messages advance): a message whose status is STORED
\* eventually has status TRANSMITTED or EXPIRED.
C15_StoredAdvances ==
    \A id \in 1..MaxSends :
        (id \in DOMAIN message_store /\ message_store[id].status = "STORED")
            ~> (/\ id \in DOMAIN message_store
                /\ message_store[id].status \in {"TRANSMITTED", "EXPIRED"})

\* C16 (QUEUED messages are retried): a message whose enqueue failed (status
\* QUEUED) eventually has status STORED, the queue accepting every entry it
\* is offered.
C16_QueuedRetried ==
    \A id \in 1..MaxSends :
        (id \in DOMAIN message_store /\ message_store[id].status = "QUEUED")
            ~> (/\ id \in DOMAIN message_store
                /\ message_store[id].status = "STORED")

\* C18 (estimated delivery): every send answered 201, whatever its status,
\* carries estimated_delivery = the time it was computed at (the time of the
\* answer) + max_latency_ms of its precedence, and the record of the message
\* carries the same value.
C18_EstimatedDelivery ==
    \A k \in DOMAIN sends :
        Answered(k) =>
            /\ sends[k].resp.estimated_delivery =
                   <<sends[k].resp.created_at
                         + max_latency_ms[sends[k].req.precedence]>>
            /\ message_store[sends[k].message_id].estimated_delivery =
                   sends[k].resp.estimated_delivery

(***************************************************************************)
(* Properties of the crypto engine                                         *)
(***************************************************************************)
\* C19 (crypto round trip): for every plaintext, salt and nonce, decrypt
\* applied to the triple that encrypt returned gives back exactly the
\* plaintext, and the decrypt endpoint answers 200 with it.
C19_RoundTrip ==
    (engine.pc = "done" /\ engine.changed = "none") =>
        /\ engine.out.raised = "none"
        /\ engine.out.plaintext = engine.plaintext
        /\ engine.response.status = 200
        /\ engine.response.plaintext = engine.plaintext

\* a plaintext of two characters, one of them of two bytes, came back
C19_Witness ==
    /\ engine.pc = "done"
    /\ engine.changed = "none"
    /\ engine.plaintext = <<2, 1>>
    /\ engine.out.raised = "none"
    /\ engine.out.plaintext = <<2, 1>>

\* decrypt and verify refused the triple: the engine raised ValueError and
\* returned no plaintext, the endpoint answered 400, verify answered false
Refused ==
    /\ engine.out.raised = "ValueError"
    /\ "plaintext" \notin DOMAIN engine.out
    /\ engine.response.status = 400
    /\ "plaintext" \notin DOMAIN engine.response
    /\ ~engine.verified.valid

Decoded(text) == b64decode(text).bytes

C21_HashStability ==
    /\ answer.op = "log" => answer.valid
    /\ answer.op = "verify" =>
           /\ answer.event # answer.original
           /\ ~answer.valid

\* an event was logged, its context changed, and the check failed
C21_Witness ==
    /\ answer.op = "verify"
    /\ answer.field = "context"
    /\ answer.original \in Range(events)
    /\ ~answer.valid

\* C22 (audit retention): the log holds at most max_events events, and they
\* are the most recently logged ones, in the order they were logged.
C22_Retention ==
    /\ Len(events) = Min(Len(logged), max_events)
    /\ \A i \in DOMAIN events :
           events[i] = logged[Len(logged) - Len(events) + i]

\* more events were logged than the log keeps
C22_Witness ==
    /\ Len(logged) > max_events
    /\ Len(events) = max_events
    /\ events[1] = logged[Len(logged) - max_events + 1]

\* C23 (audit query order), as stated: a query with no filters returns the
\* retained events in the order they were logged, truncated to the limit.
C23_QueryInsertionOrder ==
    (answer.op = "query" /\ answer.event_type = "None"
         /\ answer.control_family = "None" /\ answer.actor_node = "None") =>
        /\ Len(answer.result) = Min(answer.limit, Len(events))
        /\ \A i \in DOMAIN answer.result : answer.result[i] = events[i]

\* the place of a retained event in the log
PlaceOf(e) == CHOOSE i \in DOMAIN events : events[i] = e

\* a comes before b when the newest is first and events of one timestamp
\* keep the order they were logged in
NewerFirst(a, b) ==
    \/ a.timestamp > b.timestamp
    \/ a.timestamp = b.timestamp /\ PlaceOf(a) < PlaceOf(b)

\* C23 (audit query order), amended: a query with no filters returns the
\* retained events most recent first (by descending timestamp, events of one
\* timestamp in the order they were logged), truncated to the limit.
C23_QueryNewestFirst ==
    (answer.op = "query" /\ answer.event_type = "None"
         /\ answer.control_family = "None" /\ answer.actor_node = "None") =>
        /\ Len(answer.result) = Min(answer.limit, Len(events))
        /\ \A i \in DOMAIN answer.result : answer.result[i] \in Range(events)
        /\ \A i, j \in DOMAIN answer.result :
               i < j => NewerFirst(answer.result[i], answer.result[j])
        /\ \A e \in Range(events) \ Range(answer.result) :
               \A i \in DOMAIN answer.result : NewerFirst(answer.result[i], e)

\* an unfiltered query cut by its limit answered the later event first, and
\* two events of one timestamp in the order they were logged
C23_Witness ==
    /\ answer.op = "query" /\ answer.event_type = "None"
    /\ Len(events) = 2 /\ answer.limit = 1
    /\ answer.result = <<events[2]>>
    /\ events[1].timestamp < events[2].timestamp

(***************************************************************************)
(* Properties of the other endpoints of the gateway core                   *)
(***************************************************************************)
\* C24 (ack is idempotent): every acknowledgement, the first for a message
\* as well as a repeated one, leaves the message store and the pipeline runs
\* as they were, and answers acknowledged = true with acknowledged_by the
\* node id of the caller.
C24_AckIdempotent ==
    [][acks' # acks =>
          /\ UNCHANGED <<message_store, sends>>
          /\ acks'[Len(acks')].acknowledged
          /\ acks'[Len(acks')].acknowledged_by = acks'[Len(acks')].caller.node_id]_vars

\* a delivered message was acknowledged twice, by two nodes
C24_Witness ==
    /\ Len(acks) = 2
    /\ acks[1].message_id = acks[2].message_id
    /\ acks[1].acknowledged_by # acks[2].acknowledged_by
    /\ acks[1].message_id \in DOMAIN message_store
    /\ message_store[acks[1].message_id].status = "TRANSMITTED"

\* C27 (one audit event per send): a send that ended in direct delivery has
\* submitted exactly one audit event, of type MESSAGE_SENT, family AU and
\* outcome SUCCESS, and no send has submitted more than one.
C27_OneAuditEventPerSend ==
    \A k \in DOMAIN sends :
        /\ Len(sends[k].audit_events) <= 1
        /\ (sends[k].pc = "done" /\ sends[k].resp.code = 201
                /\ sends[k].resp.status = "TRANSMITTED")
           => /\ Len(sends[k].audit_events) = 1
              /\ sends[k].audit_events[1].event_type = "MESSAGE_SENT"
              /\ sends[k].audit_events[1].control_family = "AU"
              /\ sends[k].audit_events[1].action.outcome = "SUCCESS"

\* a send was delivered at once although its audit call failed, and a second
\* send ended without an event
C27_Witness ==
    /\ \E k \in DOMAIN sends :
          /\ sends[k].pc = "done" /\ sends[k].resp.code = 201
          /\ sends[k].resp.status = "TRANSMITTED"
          /\ sends[k].audit = "transport_error"
          /\ Len(sends[k].audit_events) = 1
    /\ \E k \in DOMAIN sends :
          /\ sends[k].pc = "done" /\ sends[k].resp.code = 500
          /\ sends[k].audit_events = <<>>

\* C28 (audit event content): every event a send submits names the sender as
\* actor with the role of the caller's claims, the operation SEND_MESSAGE on
\* the message of this send, the request's precedence, classification and
\* recipient as context, and an outcome that reflects the send: SUCCESS for a
\* send answered 201, FAILURE otherwise.
C28_AuditEventContent ==
    \A k \in DOMAIN sends :
        \A i \in DOMAIN sends[k].audit_events :
            LET s == sends[k]
                ev == s.audit_events[i] IN
            /\ ev.event_type = "MESSAGE_SENT"
            /\ ev.actor.node_id = s.req.sender
            /\ ev.actor.role = s.claims.role
            /\ ev.action.operation = "SEND_MESSAGE"
            /\ ev.action.resource = s.message_id
            /\ ev.action.outcome \in {"SUCCESS", "FAILURE"}
            /\ s.pc = "done" =>
                  (ev.action.outcome = "SUCCESS" <=> s.resp.code = 201)
            /\ ev.context = [precedence |-> s.req.precedence,
                             classification |-> s.req.classification,
                             recipient |-> s.req.recipient]

(***************************************************************************)
(* Further properties of the store-forward service                         *)
(***************************************************************************)
\* C25 (fallback switch-over): whether the primary store fails its ping at
\* startup or is lost during operation, the queue goes on against the
\* in-memory fallback: no enqueue is answered with an error and no cycle of
\* the worker ends in its error branch.
C25_FallbackSwitchOver ==
    /\ enqResp # <<>> => enqResp.code = 201
    /\ worker.pc # "backoff"

\* C26 (queue position): the queue_position an enqueue answers is the number
\* of entries its class held right after the insertion, whichever backing
\* store is in use and whatever the other classes hold.
C26_QueuePosition ==
    [][\A p \in Precedences :
          MESSAGES_ENQUEUED'[p] > MESSAGES_ENQUEUED[p] =>
              IF enq \ enq' # {}
              THEN \A r \in enq \ enq' : enqResp'.queue_position = r.depth
              ELSE enqResp'.queue_position = Len(fallback_queues'[p])]_vars

\* C29 (drain worker cycle): when the worker leaves a class, for the next
\* class or for its sleep, it has dequeued every entry of that class: the
\* class is empty at that moment.
C29_ClassDrained ==
    [][\A p \in Precedences :
          (worker.pc = "run" /\ worker' # worker /\ p = DrainOrder[worker.idx])
              => get_queue_depth(p)' = 0]_vars

\* the entry the worker takes from class p in this step, <<>> if none
WorkerTakes(p) ==
    IF worker.pc = "run" /\ worker' # worker /\ p = DrainOrder[worker.idx]
    THEN DequeueResult(p)
    ELSE <<>>

\* C30 (retry on delivery failure): an entry the worker takes from its class
\* is handed to its recipient or, the delivery having failed, is back in the
\* class right away with retry_count increased by one, unless it has expired;
\* and no step lowers the retry_count of a message that stays queued.
C30_RetryOnFailure ==
    [][\A p \in Precedences :
          /\ \A i \in DOMAIN WorkerTakes(p) :
                LET m == WorkerTakes(p)[i] IN
                \/ DeliveryAttempts(m) # <<>>
                \/ m.expires_at <= clock
                \/ \E e \in Queued(p)' :
                      /\ e.message_id = m.message_id
                      /\ e.retry_count = m.retry_count + 1
          /\ \A a \in Queued(p) : \A b \in Queued(p)' :
                a.message_id = b.message_id => b.retry_count >= a.retry_count]_vars

(***************************************************************************)
(* Further properties of the gateway core                                  *)
(***************************************************************************)
\* C31 (authentication precedes authorization): a request without an
\* Authorization header is answered 401 UNAUTHORIZED; one whose header is not
\* "Bearer <token>", or whose token is malformed, expired, badly signed or
\* lacks exp or sub, is answered 401 INVALID_TOKEN; 403 FORBIDDEN is answered
\* only to a validated token; and the handler runs only for a validated token.
C31_AuthenticationFirst ==
    /\ \A i \in DOMAIN rejects :
          LET r == rejects[i] IN
          /\ r.tok.header = "none" => (r.code = 401 /\ r.error = "UNAUTHORIZED")
          /\ (r.tok.header = "malformed"
                  \/ (r.tok.header = "bearer" /\ r.tok.defect \in TokenDefects))
             => (r.code = 401 /\ r.error = "INVALID_TOKEN")
          /\ r.code = 403 =>
                (r.error = "FORBIDDEN" /\ r.tok.header = "bearer"
                    /\ r.tok.defect \notin TokenDefects)
    /\ \A i \in DOMAIN acks :
          acks[i].caller.header = "bearer" /\ acks[i].caller.defect \notin TokenDefects

\* a token without exp that claims no permission was answered INVALID_TOKEN,
\* and a validated token without the permission was answered FORBIDDEN
C31_Witness ==
    /\ Len(rejects) = 2
    /\ rejects[1].tok.defect = "no_exp" /\ rejects[1].tok.explicit
    /\ rejects[1].error = "INVALID_TOKEN"
    /\ rejects[2].tok.defect = "none" /\ rejects[2].tok.header = "bearer"
    /\ rejects[2].error = "FORBIDDEN"

\* C32 (no message is left PENDING): once a send has returned, with 201 or
\* with 500, the status recorded for its message is not PENDING, and after a
\* 500 it is FAILED.
C32_NoMessageLeftPending ==
    \A k \in DOMAIN sends :
        sends[k].pc = "done" =>
            /\ sends[k].message_id \in DOMAIN message_store
            /\ message_store[sends[k].message_id].status # "PENDING"
            /\ sends[k].resp.code = 500 =>
                  message_store[sends[k].message_id].status = "FAILED"

\* the status routing gives the run s: delivered at once to a connected
\* node, else STORED or QUEUED by the answer of the enqueue call
RoutingResult(s) ==
    IF s.req.recipient \in connected_nodes THEN "TRANSMITTED"
    ELSE IF s.queue = "ok" THEN "STORED" ELSE "QUEUED"

\* C33 (concurrent sends do not interfere): sends that interleave at their
\* calls have distinct message ids, a step of one send changes no record but
\* that of its own id, and the status recorded for a send answered 201 is
\* the routing result of its own run.
C33_SendsIsolated ==
    [][/\ \A j, k \in DOMAIN sends' : j # k =>
              sends'[j].message_id # sends'[k].message_id
       /\ \A k \in DOMAIN sends : sends'[k] # sends[k] =>
              \A id \in DOMAIN message_store \ {sends[k].message_id} :
                  message_store'[id] = message_store[id]
       /\ \A k \in DOMAIN sends' :
              (sends'[k].pc = "done" /\ sends'[k].resp.code = 201) =>
                  message_store'[sends'[k].message_id].status
                      = RoutingResult(sends'[k])]_vars

\* a second send ran from start to end, delivered at once, while the first
\* waited for its enqueue call, its record still PENDING
C33_Witness ==
    /\ Len(sends) = 2
    /\ sends[1].pc = "enqueue" /\ sends[2].pc = "done"
    /\ sends[2].resp.code = 201
    /\ message_store[sends[1].message_id].status = "PENDING"
    /\ message_store[sends[2].message_id].status = "TRANSMITTED"

(***************************************************************************)
(* Properties of the two dequeuers and of the fallback store               *)
(***************************************************************************)
\* entries put into a store so far: the requests begun less those still
\* waiting for ZADD
Inserted == nEnq - Cardinality({r \in enq : r.pc = "zadd"})

WorkerDequeued ==
    MESSAGES_DEQUEUED["FLASH"] + MESSAGES_DEQUEUED["IMMEDIATE"]
        + MESSAGES_DEQUEUED["PRIORITY"] + MESSAGES_DEQUEUED["ROUTINE"]

\* the count of the flush_all running, or of the last one answered
Flushed ==
    IF flush.pc = "run" THEN flush.flushed
    ELSE IF flushResp # <<>> THEN flushResp.flushed ELSE 0

\* C34 (no double delivery): with the worker and flush_all dequeuing while
\* enqueues arrive, a step that hands out an entry takes exactly one entry
\* from its class and counts it for exactly one of the two, and the entries
\* flushed by a call plus those the worker dequeued never exceed the entries
\* enqueued that have left the queue.
C34_NoDoubleDelivery ==
    [][/\ WorkerDequeued' + Flushed' <= Inserted' - TotalDepth'
       /\ \A p \in Precedences :
             (flush.pc = "run" /\ flush'.pc = "run"
                  /\ flush'.flushed > flush.flushed /\ p = DrainOrder[flush.idx])
                 \/ MESSAGES_DEQUEUED'[p] > MESSAGES_DEQUEUED[p]
             => /\ get_queue_depth(p)' = get_queue_depth(p) - 1
                /\ UseRedis => DequeueResult(p)[1] \notin Queued(p)'
                /\ WorkerDequeued' + Flushed' = WorkerDequeued + Flushed + 1]_vars

\* the worker and flush_all each took an entry out of Redis while the flush
\* was running
C34_Witness ==
    /\ UseRedis /\ flush.pc = "run" /\ flush.flushed = 1
    /\ WorkerDequeued = 1 /\ worker.pc = "run"
    /\ Inserted = 2 /\ TotalDepth = 0

Enqueued ==
    MESSAGES_ENQUEUED["FLASH"] + MESSAGES_ENQUEUED["IMMEDIATE"]
        + MESSAGES_ENQUEUED["PRIORITY"] + MESSAGES_ENQUEUED["ROUTINE"]

\* C35 (depth accounting in the fallback): with the in-memory fallback in
\* use, an enqueue raises the depth of its own class by one and leaves the
\* other classes alone, a dequeue of the worker that returns an entry lowers
\* the depth of its class by one and leaves the others alone, a dequeue on an
\* empty class changes nothing, and after every step the total depth is the
\* number of entries enqueued less those dequeued, and the sum of the lengths
\* of the four queues.
C35_FallbackDepth ==
    [][~UseRedis' =>
          /\ TotalDepth' = Enqueued' - WorkerDequeued'
          /\ TotalDepth' = Len(fallback_queues'["FLASH"])
                             + Len(fallback_queues'["IMMEDIATE"])
                             + Len(fallback_queues'["PRIORITY"])
                             + Len(fallback_queues'["ROUTINE"])
          /\ \A p \in Precedences :
                /\ MESSAGES_ENQUEUED'[p] > MESSAGES_ENQUEUED[p] =>
                      /\ get_queue_depth(p)' = get_queue_depth(p) + 1
                      /\ \A c \in Precedences \ {p} :
                            fallback_queues'[c] = fallback_queues[c]
                /\ (worker.pc = "run" /\ worker' # worker
                        /\ p = DrainOrder[worker.idx]) =>
                      IF DequeueResult(p) # <<>>
                      THEN /\ get_queue_depth(p)' = get_queue_depth(p) - 1
                           /\ MESSAGES_DEQUEUED'[p] = MESSAGES_DEQUEUED[p] + 1
                           /\ \A c \in Precedences \ {p} :
                                 fallback_queues'[c] = fallback_queues[c]
                      ELSE /\ fallback_queues' = fallback_queues
                           /\ MESSAGES_DEQUEUED' = MESSAGES_DEQUEUED]_vars

\* the fallback took three entries; the worker dequeued one of the two FLASH
\* entries and found IMMEDIATE empty
C35_Witness ==
    /\ phase = "up" /\ ~UseRedis
    /\ Enqueued = 3 /\ WorkerDequeued = 1 /\ TotalDepth = 2
    /\ Len(fallback_queues["FLASH"]) = 1 /\ Len(fallback_queues["ROUTINE"]) = 1
    /\ worker.pc = "run" /\ worker.idx = 3

\* C36 (payload handed to the queue): the encrypted_content of every
\* enqueue call is the ciphertext of the crypto service exactly when the
\* encrypt call was answered 200 with a ciphertext field, and is otherwise
\* (error status, transport error, 200 without the field) the plaintext body
\* of the request, unmodified.
C36_QueuePayload ==
    \A k \in DOMAIN sends :
        \A i \in DOMAIN sends[k].enqueue_posts :
            LET s == sends[k]
                payload == s.enqueue_posts[i].encrypted_content IN
            /\ s.crypto = "ciphertext" => payload = "CIPHERTEXT"
            /\ s.crypto # "ciphertext" =>
                  /\ s.crypto \in {"no_field", "error_status", "transport_error"}
                  /\ payload = s.req.content
            /\ payload = "CIPHERTEXT" <=> s.crypto = "ciphertext"

\* one send enqueued the ciphertext and another, whose encrypt call met a
\* transport error, the plaintext
C36_Witness ==
    /\ \E k \in DOMAIN sends :
          /\ sends[k].crypto = "ciphertext" /\ sends[k].enqueue_posts # <<>>
          /\ sends[k].enqueue_posts[1].encrypted_content = "CIPHERTEXT"
    /\ \E k \in DOMAIN sends :
          /\ sends[k].crypto = "transport_error" /\ sends[k].enqueue_posts # <<>>
          /\ sends[k].enqueue_posts[1].encrypted_content = sends[k].req.content
          /\ sends[k].req.content # "CIPHERTEXT"

\* C37 (pipeline order): within a send the record is stored with status
\* PENDING before any collaborator is called, the encrypt call has returned
\* before the audit event is submitted, and the audit call has returned or
\* failed before routing starts; the event is submitted while the status is
\* still PENDING and carries outcome SUCCESS whatever status routing gives.
C37_PipelineOrder ==
    \A k \in DOMAIN sends :
        LET s == sends[k] IN
        /\ s.message_id \in DOMAIN message_store
        /\ s.pc = "encrypt" =>
              /\ message_store[s.message_id].status = "PENDING"
              /\ s.crypto = "none" /\ s.audit = "none" /\ s.queue = "none"
              /\ s.audit_events = <<>> /\ s.enqueue_posts = <<>>
        /\ s.audit_events # <<>> => s.crypto # "none"
        /\ s.pc = "audit" =>
              /\ message_store[s.message_id].status = "PENDING"
              /\ s.audit = "none" /\ s.enqueue_posts = <<>>
              /\ Len(s.audit_events) = 1
        /\ (s.enqueue_posts # <<>>
               \/ message_store[s.message_id].status # "PENDING")
           => (s.audit # "none" /\ s.audit_events # <<>>)
        /\ \A i \in DOMAIN s.audit_events :
              s.audit_events[i].action.outcome = "SUCCESS"

\* a send whose enqueue call failed ended QUEUED with its event saying
\* SUCCESS, while another send had submitted its event and not yet routed
C37_Witness ==
    /\ \E k \in DOMAIN sends :
          /\ sends[k].pc = "done" /\ sends[k].resp.code = 201
          /\ message_store[sends[k].message_id].status = "QUEUED"
          /\ sends[k].queue = "transport_error"
          /\ sends[k].audit_events[1].action.outcome = "SUCCESS"
    /\ \E k \in DOMAIN sends :
          /\ sends[k].pc = "audit"
          /\ message_store[sends[k].message_id].status = "PENDING"

\* C38 (the message store is grow-only): a record, once stored, is never
\* removed and its content, precedence, classification, sender, recipient
\* and created_at never change; from then on get_status and get_content find
\* the message, and get_content returns the body as it was submitted,
\* whatever the crypto service answered.
C38_StoreGrowOnly ==
    [][/\ \A id \in DOMAIN message_store :
             /\ id \in DOMAIN message_store'
             /\ message_store'[id].content = message_store[id].content
             /\ message_store'[id].precedence = message_store[id].precedence
             /\ message_store'[id].classification = message_store[id].classification
             /\ message_store'[id].sender = message_store[id].sender
             /\ message_store'[id].recipient = message_store[id].recipient
             /\ message_store'[id].created_at = message_store[id].created_at
       /\ \A k \in DOMAIN sends' :
             \E id \in DOMAIN message_store' :
                 /\ id = sends'[k].message_id
                 /\ get_message_status(id)'.code = 200
                 /\ get_message_content(id)'.code = 200
                 /\ get_message_content(id)'.content = sends'[k].req.content]_vars

\* a message whose content went to the queue encrypted, and one whose send
\* ended in an error, are both in the store with their plaintext
C38_Witness ==
    /\ \E k \in DOMAIN sends :
          /\ sends[k].pc = "done" /\ sends[k].resp.code = 201
          /\ sends[k].crypto = "ciphertext"
          /\ sends[k].encrypted_content # sends[k].req.content
          /\ get_message_content(sends[k].message_id).content = sends[k].req.content
    /\ \E k \in DOMAIN sends :
          /\ sends[k].pc = "done" /\ sends[k].resp.code = 500
          /\ get_message_status(sends[k].message_id).status = "PENDING"

\* C39 (flush_all terminates): with finitely many enqueues while it runs, a
\* flush_all that has begun returns; each of its steps either takes one entry
\* from the class it is at and counts it as flushed, or finds the class empty
\* and leaves it, for the next class or to answer; and the answer carries the
\* count of the entries taken and failed = 0.
C39_FlushTerminates ==
    /\ (flush.pc = "run") ~> (flush.pc = "idle")
    /\ [][\A p \in Precedences :
             (flush.pc = "run" /\ flush' # flush /\ p = DrainOrder[flush.idx]) =>
                 IF DequeueResult(p) # <<>>
                 THEN /\ flush'.pc = "run" /\ flush'.idx = flush.idx
                      /\ flush'.flushed = flush.flushed + 1
                      /\ flush'.failed = 0
                      /\ get_queue_depth(p)' = get_queue_depth(p) - 1
                 ELSE /\ get_queue_depth(p)' = 0
                      /\ IF flush.idx = 4
                         THEN /\ flush'.pc = "idle"
                              /\ flushResp'.flushed = flush.flushed
                              /\ flushResp'.failed = 0
                         ELSE /\ flush'.idx = flush.idx + 1
                              /\ flush'.flushed = flush.flushed
                              /\ flush'.failed = 0]_vars

\* a flush_all over Redis returned having taken two entries, and an entry
\* enqueued behind it is still queued
C39_Witness ==
    /\ UseRedis /\ flush.pc = "idle"
    /\ flushResp # <<>> /\ flushResp.code = 200
    /\ flushResp.flushed = 2 /\ flushResp.failed = 0
    /\ TotalDepth = 1

====
